---------------------------- MODULE Spec2Model ----------------------------
(***************************************************************************)
(* Verification model of the V7X hipot tester control program:             *)
(*   utils/parsing.py        parse_current_input (Parameter Codec)         *)
(*   device/v7x_device.py    V7xDevice (Line Protocol Driver)              *)
(*   testing/test_sequencer.py  TestSequencer (Sequence Engine, Run        *)
(*                              Controller)                                *)
(*   gui/main_window.py      MainWindow handlers and TestWorker            *)
(* The instrument itself and the datastore are the environment: their      *)
(* answers are chosen with \E in the actions.                              *)
(***************************************************************************)
EXTENDS Integers, Sequences, FiniteSets, TLC

\* Python's None, for values that are strings otherwise.
None == "<None>"

(***************************************************************************)
(* Parameter Codec: parse_current_input.  A Python str is modelled by the  *)
(* sequence of its characters (CharsOf); the result is built digit by      *)
(* digit the way float() and the 'g' format produce it.                    *)
(***************************************************************************)
DigitChars == <<"0", "1", "2", "3", "4", "5", "6", "7", "8", "9">>

Digits == {DigitChars[i] : i \in 1..10}

DigitVal(c) == (CHOOSE i \in 1..10 : DigitChars[i] = c) - 1

\* The characters of every string the model hands to parse_current_input.
CharsOf ==
  ("" :> <<>>) @@
  ("5mA" :> <<"5", "m", "A">>) @@
  ("10mA" :> <<"1", "0", "m", "A">>) @@
  ("50uA" :> <<"5", "0", "u", "A">>) @@
  ("0.01A" :> <<"0", ".", "0", "1", "A">>) @@
  ("15" :> <<"1", "5">>) @@
  ("10xA" :> <<"1", "0", "x", "A">>) @@
  ("abc" :> <<"a", "b", "c">>) @@
  ("10m" :> <<"1", "0", "m">>) @@
  ("  " :> <<" ", " ">>) @@
  (" 2 MA " :> <<" ", "2", " ", "M", "A", " ">>) @@
  ("1.5e-3" :> <<"1", ".", "5", "e", "-", "3">>) @@
  ("-.5a" :> <<"-", ".", "5", "a">>) @@
  ("1e" :> <<"1", "e">>) @@
  ("12." :> <<"1", "2", ".">>) @@
  ("250000mA" :> <<"2", "5", "0", "0", "0", "0", "m", "A">>) @@
  ("1e6" :> <<"1", "e", "6">>) @@
  ("0" :> <<"0">>)

RECURSIVE PrefixLen(_, _)
\* Length of the longest prefix of cs made of characters of S.
PrefixLen(cs, S) ==
  IF cs = <<>> \/ Head(cs) \notin S THEN 0 ELSE 1 + PrefixLen(Tail(cs), S)

Drop(cs, n) == SubSeq(cs, n + 1, Len(cs))

RECURSIVE Reverse(_)
Reverse(cs) == IF cs = <<>> THEN <<>> ELSE Append(Reverse(Tail(cs)), Head(cs))

\* str.strip() on the modelled alphabet (blank is the only whitespace in it).
Strip(cs) ==
  LET lead == Drop(cs, PrefixLen(cs, {" "}))
  IN  Reverse(Drop(Reverse(lead), PrefixLen(Reverse(lead), {" "})))

RECURSIVE DigitsToInt(_)
DigitsToInt(cs) ==
  IF cs = <<>> THEN 0
  ELSE 10 * DigitsToInt(SubSeq(cs, 1, Len(cs) - 1)) + DigitVal(cs[Len(cs)])

RECURSIVE IntToStr(_)
IntToStr(n) ==
  IF n < 10 THEN DigitChars[n + 1]
  ELSE IntToStr(n \div 10) \o DigitChars[(n % 10) + 1]

RECURSIVE Zeros(_)
Zeros(n) == IF n <= 0 THEN "" ELSE "0" \o Zeros(n - 1)

RECURSIVE Pow10(_)
Pow10(n) == IF n <= 0 THEN 1 ELSE 10 * Pow10(n - 1)

RECURSIVE TrailingZeros(_)
TrailingZeros(n) == IF n = 0 \/ n % 10 # 0 THEN 0 ELSE 1 + TrailingZeros(n \div 10)

RECURSIVE NumDigits(_)
NumDigits(n) == IF n < 10 THEN 1 ELSE 1 + NumDigits(n \div 10)

\* The regular expression of parse_current_input,
\*   ^(-?\d*\.?\d+(?:[eE][-+]?\d+)?)\s*([mu]?[aA]?)?$  with IGNORECASE,
\* read one character at a time.  m is the match so far: the part of the
\* expression it is in (at), the digits read as the number mant * 10^exp10
\* (exp10 = exponent - nFrac in the end) and the unit in lower case.
NoMatch == [at |-> "fail"]

MatchStart ==
  [at |-> "start", neg |-> FALSE, mant |-> 0, nInt |-> 0, nFrac |-> 0,
   eNeg |-> FALSE, exponent |-> 0, nExp |-> 0, unit |-> ""]

\* [aA]?$
MatchAmpere(m, c) ==
  IF c \in {"a", "A"} THEN [m EXCEPT !.at = "end", !.unit = @ \o "a"] ELSE NoMatch

\* \s*([mu]?[aA]?)?$
MatchUnit(m, c) ==
  IF c = " " THEN [m EXCEPT !.at = "space"]
  ELSE IF c \in {"m", "M"} THEN [m EXCEPT !.at = "prefix", !.unit = "m"]
  ELSE IF c \in {"u", "U"} THEN [m EXCEPT !.at = "prefix", !.unit = "u"]
  ELSE MatchAmpere(m, c)

\* \d+ of the exponent, then what follows the number
MatchExponent(m, c) ==
  IF c \in Digits
  THEN [m EXCEPT !.at = "exp", !.exponent = 10 * @ + DigitVal(c), !.nExp = @ + 1]
  ELSE IF m.nExp >= 1 THEN MatchUnit(m, c)
  ELSE NoMatch

\* what follows \d*\.?\d+ : the mantissa has to end in a digit
MatchAfterMantissa(m, c) ==
  IF (m.at = "frac" /\ m.nFrac = 0) \/ (m.at = "int" /\ m.nInt = 0) THEN NoMatch
  ELSE IF c \in {"e", "E"} THEN [m EXCEPT !.at = "exp_sign"]
  ELSE MatchUnit(m, c)

\* \d*\.?
MatchInteger(m, c) ==
  IF c \in Digits
  THEN [m EXCEPT !.at = "int", !.mant = 10 * @ + DigitVal(c), !.nInt = @ + 1]
  ELSE IF c = "." THEN [m EXCEPT !.at = "frac"]
  ELSE MatchAfterMantissa([m EXCEPT !.at = "int"], c)

MatchChar(m, c) ==
  CASE m.at = "start" ->
         IF c = "-" THEN [m EXCEPT !.at = "int", !.neg = TRUE] ELSE MatchInteger(m, c)
    [] m.at = "int" -> MatchInteger(m, c)
    [] m.at = "frac" ->
         IF c \in Digits
         THEN [m EXCEPT !.mant = 10 * @ + DigitVal(c), !.nFrac = @ + 1]
         ELSE MatchAfterMantissa(m, c)
    [] m.at = "exp_sign" ->
         IF c \in {"-", "+"} THEN [m EXCEPT !.at = "exp", !.eNeg = (c = "-")]
         ELSE MatchExponent(m, c)
    [] m.at = "exp" -> MatchExponent(m, c)
    [] m.at = "space" -> MatchUnit(m, c)
    [] m.at = "prefix" -> MatchAmpere(m, c)
    [] OTHER -> NoMatch

RECURSIVE MatchChars(_, _)
MatchChars(m, s) ==
  IF s = <<>> \/ m.at = "fail" THEN m ELSE MatchChars(MatchChar(m, Head(s)), Tail(s))

\* Variant: the end of the string is accepted wherever the match stands,
\* a number cut short included.
MatchEndLenient(m) ==
  IF m.at \in {"fail", "start"} THEN NoMatch
  ELSE [at |-> "end", neg |-> m.neg, mant |-> m.mant,
        exp10 |-> (IF m.eNeg THEN -1 ELSE 1) * m.exponent - m.nFrac,
        unit |-> m.unit]

\* The end of the string in m: NoMatch unless the expression is matched
\* there, else the groups as [at, neg, mant, exp10, unit].
MatchEnd(m) ==
  IF \/ m.at = "int" /\ m.nInt >= 1
     \/ m.at = "frac" /\ m.nFrac >= 1
     \/ m.at = "exp" /\ m.nExp >= 1
     \/ m.at \in {"space", "prefix", "end"}
  THEN [at |-> "end", neg |-> m.neg, mant |-> m.mant,
        exp10 |-> (IF m.eNeg THEN -1 ELSE 1) * m.exponent - m.nFrac,
        unit |-> m.unit]
  ELSE NoMatch

\* re.match on the stripped characters.
MatchCurrent(s) == MatchEnd(MatchChars(MatchStart, s))

\* Precision of the 'g' format and the bounds of its fixed notation.
GPrecision == 6

\* The largest power of ten a float holds: float() gives inf above it.
MaxFloatExp == 308

GMinFixedExp == -4

\* Scientific notation of the digits m (nd of them), leading digit at 10^x.
FormatExp(m, nd, x) ==
  IntToStr(m \div Pow10(nd - 1))
    \o (IF nd = 1 THEN ""
        ELSE "." \o Zeros(nd - 1 - NumDigits(m % Pow10(nd - 1)))
                 \o IntToStr(m % Pow10(nd - 1)))
    \o (IF x < 0 THEN "e-" ELSE "e+")
    \o (IF x < 10 /\ x > -10 THEN "0" ELSE "")
    \o IntToStr(IF x < 0 THEN 0 - x ELSE x)

\* Fixed notation of m * 10^e, leading digit at 10^x.
FormatFixed(m, e, x) ==
  IF e >= 0 THEN IntToStr(m) \o Zeros(e)
  ELSE IF x >= 0
  THEN IntToStr(m \div Pow10(0 - e)) \o "."
         \o Zeros((0 - e) - NumDigits(m % Pow10(0 - e))) \o IntToStr(m % Pow10(0 - e))
  ELSE "0." \o Zeros((0 - x) - 1) \o IntToStr(m)

\* The 'g' format of m * 10^e, m without trailing zeros.
FormatDigits(m, e, nd) ==
  IF nd - 1 + e < GMinFixedExp \/ nd - 1 + e >= GPrecision
  THEN FormatExp(m, nd, nd - 1 + e)
  ELSE FormatFixed(m, e, nd - 1 + e)

StripZeros(mant, exp10, tz) ==
  FormatDigits(mant \div Pow10(tz), exp10 + tz, NumDigits(mant \div Pow10(tz)))

\* f"{value:g}" for the value (-1)^neg * mant * 10^exp10, for mantissas of at
\* most GPrecision significant digits (no rounding happens there).
FormatG(neg, mant, exp10) ==
  (IF neg THEN "-" ELSE "")
    \o (IF mant = 0 THEN "0"
        ELSE IF NumDigits(mant) - 1 + exp10 > MaxFloatExp THEN "inf"
        ELSE StripZeros(mant, exp10, TrailingZeros(mant)))

\* parse_current_input after the match: the unit scales the value.
ScaleByUnit(match) ==
  IF match.at = "fail" THEN None
  ELSE IF match.unit \notin {"ma", "ua", "a", ""} THEN None
  ELSE FormatG(match.neg, match.mant,
               match.exp10 - (IF match.unit = "ma" THEN 3
                              ELSE IF match.unit = "ua" THEN 6 ELSE 0))

\* parse_current_input(input_str): "" for a blank input, None for a parse
\* error, the value in amperes in 'g' format otherwise.
parse_current_chars(input_str) ==
  IF input_str = <<>> THEN "" ELSE ScaleByUnit(MatchCurrent(Strip(input_str)))

\* parse_current_input on a string of the table CharsOf.
parse_current_input(input_str) == parse_current_chars(CharsOf[input_str])

(***************************************************************************)
(* Status flags (STATUS_FLAGS) and their decoding in display_results.      *)
(***************************************************************************)
\* STATUS_FLAGS, in the order of the dict.
STATUS_FLAGS ==
  <<[flag_bit |-> 1, description |-> "V7X Internal Fault"],
    [flag_bit |-> 2, description |-> "Over Voltage Output"],
    [flag_bit |-> 4, description |-> "Line Too Low"],
    [flag_bit |-> 8, description |-> "DUT Breakdown Detected"],
    [flag_bit |-> 16, description |-> "HOLD Step Timeout"],
    [flag_bit |-> 32, description |-> "User Aborted Sequence"],
    [flag_bit |-> 64, description |-> "GB Over-Compliance"],
    [flag_bit |-> 128, description |-> "Arc Detected"],
    [flag_bit |-> 256, description |-> "Measurement < Min Limit"],
    [flag_bit |-> 512, description |-> "Measurement > Max Limit"],
    [flag_bit |-> 1024, description |-> "IR Not Steady/Decreasing"],
    [flag_bit |-> 2048, description |-> "Interlock Failure"],
    [flag_bit |-> 4096, description |-> "Switch Matrix Error"],
    [flag_bit |-> 8192, description |-> "V7X Overheated"],
    [flag_bit |-> 16384, description |-> "Unstable Load/Control Error"],
    [flag_bit |-> 32768, description |-> "GB Wiring Error"],
    [flag_bit |-> 65536, description |-> "Voltage Error"]>>

RECURSIVE BitAnd(_, _)
\* Python's a & b on non-negative integers.
BitAnd(a, b) ==
  IF a = 0 \/ b = 0 THEN 0
  ELSE 2 * BitAnd(a \div 2, b \div 2) + (IF a % 2 = 1 /\ b % 2 = 1 THEN 1 ELSE 0)

\* Variant: a flag is taken as present when the code reaches its bit.
FlagReached(code_int, flag_bit) == code_int >= flag_bit

\* if code_int & flag_bit
FlagPresent(code_int, flag_bit) == BitAnd(code_int, flag_bit) # 0

\* The loop over STATUS_FLAGS.items(): flags_present.
FlagsPresent(code_int) ==
  SelectSeq(STATUS_FLAGS, LAMBDA flag : FlagPresent(code_int, flag.flag_bit))

\* display_results on overall_status_code (its characters): no flag for "0",
\* which is a pass, and none when int() raises ValueError.
display_flags(overall_status_code) ==
  IF overall_status_code = <<"0">> THEN <<>>
  ELSE IF overall_status_code = <<>> \/ \E i \in 1..Len(overall_status_code) :
                                         overall_status_code[i] \notin Digits
  THEN <<>>
  ELSE FlagsPresent(DigitsToInt(overall_status_code))

(***************************************************************************)
(* Step configurations (TestStepConfig): Python dicts, modelled as          *)
(* functions from the keys present to their values.                        *)
(***************************************************************************)
TEST_TYPES == {"ACW", "DCW", "IR", "CONT", "GND"}

\* dict.get(key, default)
Get(step_config, key, default) ==
  IF key \in DOMAIN step_config THEN step_config[key] ELSE default

\* Scenario A of the specification: one ACW step as the setup dialog returns it.
CfgACW ==
  [type |-> "ACW", step_name |-> "", voltage |-> "1000", ramp_time |-> "1.0",
   dwell_time |-> "2.0", min_limit |-> "", max_limit |-> "5mA", ground_check |-> FALSE]

CfgIR ==
  [type |-> "IR", step_name |-> "ir", voltage |-> "500", ramp_time |-> "1.0",
   dwell_time |-> "2.0", min_limit |-> "", max_limit |-> ""]

\* A stored step whose maximum current limit is not a current.
CfgDCWBadMax ==
  [type |-> "DCW", step_name |-> "", voltage |-> "1500", ramp_time |-> "0.5",
   dwell_time |-> "3.0", min_limit |-> "", max_limit |-> "10xA", ground_check |-> FALSE]

CfgACWBadMin ==
  [type |-> "ACW", step_name |-> "", voltage |-> "1000", ramp_time |-> "1.0",
   dwell_time |-> "2.0", min_limit |-> "abc", max_limit |-> "5mA", ground_check |-> TRUE]

CfgDCWGround ==
  [type |-> "DCW", step_name |-> "dc", voltage |-> "1500", ramp_time |-> "0.5",
   dwell_time |-> "3.0", min_limit |-> "50uA", max_limit |-> "10mA", ground_check |-> TRUE]

CfgCONT ==
  [type |-> "CONT", step_name |-> "", current |-> "0.2", min_limit |-> "",
   max_limit |-> "0.5", dwell_time |-> "1.5"]

CfgGND ==
  [type |-> "GND", step_name |-> "", current |-> "25", max_limit |-> "0.05",
   dwell_time |-> "4.0", freq |-> "50"]

\* Only the type is stored: every parameter takes its default.
CfgACWDefaults == [type |-> "ACW"]

CfgBadType == [type |-> "XYZ", voltage |-> "1000"]

CfgEmptyType == [type |-> "", voltage |-> "1000"]

CfgNoType == [voltage |-> "1000", max_limit |-> "5mA"]

\* Every step configuration add_step_to_device is called with.
StepConfigs ==
  {CfgACW, CfgIR, CfgDCWBadMax, CfgACWBadMin, CfgDCWGround, CfgCONT, CfgGND,
   CfgACWDefaults, CfgBadType, CfgEmptyType, CfgNoType}

\* What the setup dialog returns (get_step_config validates ACW/DCW limits).
DialogConfigs == {CfgACW, CfgIR}

\* The steps of the sequences held by the datastore.
StoredConfigs == {CfgACW, CfgIR}

(***************************************************************************)
(* The instrument (environment).  It keeps the programmed steps and an     *)
(* error register; a command it rejects sets the register, *CLS and a      *)
(* read of *ERR? clear it.                                                 *)
(***************************************************************************)
\* Bounds of the model.
MaxSteps == 2

MaxDevSteps == 2

NoError == "0"

DeviceError == "1"

SimpleCommands == {"*IDN?", "*CLS", "*ERR?", "NOSEQ", "RUN", "RUN?", "RSLT?", "ABORT"}

StepResultQuery(i) == "STEPRSLT?," \o IntToStr(i)

\* The instrument executes a command it received; accept is its verdict on a
\* command it may refuse (ADD, NOSEQ).
DevExec(st, command, accept) ==
  IF command \in {"*CLS", "*ERR?"} THEN [st EXCEPT !.devErr = NoError]
  ELSE IF command = "NOSEQ"
       THEN IF accept THEN [st EXCEPT !.devSeq = <<>>]
            ELSE [st EXCEPT !.devErr = DeviceError]
  ELSE IF command \in SimpleCommands
          \/ command \in {StepResultQuery(i) : i \in 1..(MaxSteps + 1)} THEN st
  ELSE IF accept /\ Len(st.devSeq) < MaxDevSteps
       THEN [st EXCEPT !.devSeq = Append(@, command)]
  ELSE [st EXCEPT !.devErr = DeviceError]

(***************************************************************************)
(* Line Protocol Driver (V7xDevice), on a state record st:                 *)
(*   is_open, sequence, id, name, description  (driver and sequencer)      *)
(*   devSeq, devErr                            (instrument)                *)
(*   sent   the commands handed to the transport during the operation      *)
(***************************************************************************)
\* send_command: write is whether HidUart_Write reports success.
send_command(st, command, write, accept) ==
  IF ~st.is_open THEN [ret |-> FALSE, st |-> st]
  ELSE LET logged == [st EXCEPT !.sent = Append(@, command)]
       IN  IF ~write THEN [ret |-> FALSE, st |-> logged]
           ELSE [ret |-> TRUE, st |-> DevExec(logged, command, accept)]

\* How a query ends: the write fails, or read_response returns the reply
\* line, None (nothing before the deadline, or a read error) or an empty line.
QueryOutcomes == {"write_failed", "line", "no_reply", "empty_line"}

\* query_command: answer is the instrument's reply line to a query other
\* than *ERR?, whose reply is the error register.
query_command(st, command, outcome, answer) ==
  IF ~st.is_open THEN [ret |-> None, st |-> st]
  ELSE LET s == send_command(st, command, outcome # "write_failed", TRUE)
           line == IF command = "*ERR?" THEN st.devErr ELSE answer
       IN  IF ~s.ret THEN [ret |-> None, st |-> s.st]
           ELSE [ret |-> IF outcome = "line" THEN line
                         ELSE IF outcome = "empty_line" THEN "" ELSE None,
                 st |-> s.st]

\* The transport under V7xDevice, on a driver record d:
\*   is_open   V7xDevice._is_open
\*   handle    V7xDevice._device_handle (NullHandle: no value)
\*   calls     the SLABHIDtoUART calls of the operation, each <<function, ok>>
\*             with ok whether it reported HID_UART_SUCCESS
NullHandle == "null"

DeviceHandle == "handle"

\* The read/write timeouts in force at the transport, in milliseconds:
\* DEFAULT_READ_TIMEOUT_MS/DEFAULT_WRITE_TIMEOUT_MS, the polling timeouts of
\* read_response, and the ones of the library before any HidUart_SetTimeouts.
DefaultTimeouts == "100/1000"
PollTimeouts == "50/1000"
LibraryTimeouts == "library"

Called(d, function, ok) == [d EXCEPT !.calls = Append(@, <<function, ok>>)]

\* Variant: the driver stays open when HidUart_Close reports a failure.
CloseUnlessRefused(d, status) ==
  IF ~d.is_open \/ d.handle = NullHandle
  THEN [ret |-> TRUE, d |-> [d EXCEPT !.is_open = FALSE]]
  ELSE IF ~status THEN [ret |-> FALSE, d |-> Called(d, "HidUart_Close", FALSE)]
  ELSE [ret |-> TRUE,
        d |-> [Called(d, "HidUart_Close", TRUE) EXCEPT !.handle = NullHandle,
                                                       !.is_open = FALSE,
                                                       !.live = @ - 1]]

\* close(): status is whether HidUart_Close reports success; the library
\* gives the handle up whatever it reports (live counts the handles that
\* HidUart_Open gave and HidUart_Close has not been called on).
close(d, status) ==
  IF ~d.is_open \/ d.handle = NullHandle
  THEN [ret |-> TRUE, d |-> [d EXCEPT !.is_open = FALSE]]
  ELSE [ret |-> status,
        d |-> [Called(d, "HidUart_Close", status) EXCEPT !.handle = NullHandle,
                                                         !.is_open = FALSE,
                                                         !.live = @ - 1]]

\* Variant: a failed HidUart_SetUartConfig makes _configure_uart return False.
ConfigureUartStrict(d, status) ==
  IF ~d.is_open THEN [ret |-> FALSE, d |-> d]
  ELSE [ret |-> status, d |-> Called(d, "HidUart_SetUartConfig", status)]

\* _configure_uart(): a failed HidUart_SetUartConfig is only printed.
configure_uart(d, status) ==
  IF ~d.is_open THEN [ret |-> FALSE, d |-> d]
  ELSE [ret |-> TRUE, d |-> Called(d, "HidUart_SetUartConfig", status)]

\* HidUart_SetTimeouts: the timeouts change when the call succeeds.
SetTimeouts(d, timeouts, status) ==
  [Called(d, "HidUart_SetTimeouts", status)
     EXCEPT !.timeouts = IF status THEN timeouts ELSE @]

\* _set_timeouts(): a failed HidUart_SetTimeouts is only printed.
set_timeouts(d, timeouts, status) ==
  IF ~d.is_open THEN [ret |-> FALSE, d |-> d]
  ELSE [ret |-> TRUE, d |-> SetTimeouts(d, timeouts, status)]

flush_buffers(d, status) ==
  IF ~d.is_open THEN [ret |-> FALSE, d |-> d]
  ELSE [ret |-> status, d |-> Called(d, "HidUart_FlushBuffers", status)]

\* Variant: a step after HidUart_Open fails and the driver forgets the handle
\* without closing it.
OpenFailedLeaks(d, status) ==
  [ret |-> FALSE, d |-> [d EXCEPT !.is_open = FALSE, !.handle = NullHandle]]

\* Variant: a step after HidUart_Open fails and the handle is kept.
OpenFailedKeepsHandle(d, status) == [ret |-> FALSE, d |-> d]

\* open(): a step after HidUart_Open returned False: self.close(); return False.
OpenFailed(d, status) == [ret |-> FALSE, d |-> close(d, status).d]

\* open() from flush_buffers on; t is what _set_timeouts returned.
OpenFlush(t, env) ==
  IF ~t.ret THEN OpenFailed(t.d, env[5])
  ELSE IF ~flush_buffers(t.d, env[4]).ret
       THEN OpenFailed(flush_buffers(t.d, env[4]).d, env[5])
       ELSE [ret |-> TRUE, d |-> flush_buffers(t.d, env[4]).d]

\* open() from _set_timeouts on; u is what _configure_uart returned.
OpenTimeouts(u, env) ==
  IF ~u.ret THEN OpenFailed(u.d, env[5])
  ELSE OpenFlush(set_timeouts(u.d, DefaultTimeouts, env[3]), env)

\* open(): env is <<opened, uart, timeouts, flush, closed>>, with opened
\* whether HidUart_Open reports success and gives a handle, and the others
\* the status of the call each names.
OpenDevice(d, env) ==
  IF ~env[1]
  THEN [ret |-> FALSE,
        d |-> [Called(d, "HidUart_Open", FALSE) EXCEPT !.handle = NullHandle]]
  ELSE OpenTimeouts(
         configure_uart([Called(d, "HidUart_Open", TRUE)
                           EXCEPT !.is_open = TRUE, !.handle = DeviceHandle,
                                  !.live = @ + 1],
                        env[2]), env)

\* Variant: open() goes to HidUart_Open whether the driver is open or not.
OpenWithoutCheck(d, env) == OpenDevice(d, env)

\* open(): nothing is called when the driver is already open.
open(d, env) == IF d.is_open THEN [ret |-> TRUE, d |-> d] ELSE OpenDevice(d, env)

\* The transport's answers to one open(), without the ones it never asks for.
OpenEnvs ==
  {<<FALSE, TRUE, TRUE, TRUE, TRUE>>}
    \cup {<<TRUE, uart, timeouts, TRUE, TRUE>> :
            uart \in BOOLEAN, timeouts \in BOOLEAN}
    \cup {<<TRUE, uart, timeouts, FALSE, closed>> :
            uart \in BOOLEAN, timeouts \in BOOLEAN, closed \in BOOLEAN}

\* The bytes on the wire: the carriage return, the line feed, and the
\* characters of a command or a reply (a letter, a question mark, a blank).
CR == "CR"
LF == "LF"

\* The longest command send_command is explored with.
MaxCommandLen == 2

\* Variant: the carriage return is appended to every command.
WireBytesAlways(command) == Append(command, CR)

\* send_command: if not command.endswith('\r'): command += '\r'.
WireBytes(command) ==
  IF command # <<>> /\ command[Len(command)] = CR THEN command
  ELSE Append(command, CR)

\* Variant: a write that took fewer bytes than the command is a failure.
WrittenStrict(d, wire, status, bytes_written) ==
  [ret |-> status /\ bytes_written = Len(wire),
   d |-> Called(d, "HidUart_Write", status), handed |-> <<wire>>]

\* send_command from HidUart_Write on: wire is the buffer handed over; a
\* write of fewer bytes is only printed.
Written(d, wire, status, bytes_written) ==
  [ret |-> status, d |-> Called(d, "HidUart_Write", status), handed |-> <<wire>>]

\* send_command(command), the characters of the command and the bytes handed
\* to HidUart_Write: status and bytes_written are what the write reports.
send_command_bytes(d, command, status, bytes_written) ==
  IF ~d.is_open THEN [ret |-> FALSE, d |-> d, handed |-> <<>>]
  ELSE Written(d, WireBytes(command), status, bytes_written)

\* read_response: timeout_ms, in ticks of the clock, and the most answers
\* of HidUart_Read a call is explored with before the device falls silent.
TimeoutTicks == 2
MaxReads == 3

\* One answer of HidUart_Read: its status, the byte it read if any, and the
\* ticks that passed until the next reading of the clock.
ReadAnswer(status, bytes, took) ==
  [status |-> status, bytes |-> bytes, took |-> took]

\* A read of a silent device: HID_UART_READ_TIMED_OUT after the polling
\* timeout and the sleep behind it.
SilentRead == ReadAnswer("timed_out", <<>>, 1)

\* read_response at its loop: nothing read yet; now is the clock since the
\* call started and start is read_start_time on that clock.
StartOfRead ==
  [response |-> <<>>, consumed |-> 0, now |-> 0, start |-> 0, reads |-> 0,
   last_read_at |-> 0, exit |-> "none"]

\* The loop having made one more HidUart_Read that took some ticks.
AfterRead(r, took) ==
  [r EXCEPT !.reads = @ + 1, !.last_read_at = r.now, !.now = @ + took]

RECURSIVE ReadLoop(_, _, _)
\* The body of the loop on the answer e: a line feed breaks, a carriage
\* return is dropped, another byte is appended; resets says whether
\* read_start_time is set again at each byte (hipot_cmd.read_response does,
\* V7xDevice.read_response does not).
ReadStep(resets, answers, r, e) ==
  IF e.status = "error" THEN [r EXCEPT !.exit = "error"]
  ELSE IF e.status = "timed_out" \/ e.bytes = <<>> THEN ReadLoop(resets, answers, r)
  ELSE IF e.bytes[1] = LF THEN [r EXCEPT !.exit = "lf"]
  ELSE ReadLoop(resets, answers,
                [r EXCEPT !.response = IF e.bytes[1] = CR THEN @
                                       ELSE Append(@, e.bytes[1]),
                          !.start = IF resets THEN r.now ELSE @])

\* while (time.time() - read_start_time) * 1000 < timeout_ms: the answers
\* of HidUart_Read in order, then a silent device.
ReadLoop(resets, answers, r) ==
  IF r.now - r.start >= TimeoutTicks THEN [r EXCEPT !.exit = "deadline"]
  ELSE IF r.consumed = Len(answers)
  THEN ReadLoop(resets, answers, AfterRead(r, SilentRead.took))
  ELSE ReadStep(resets, answers,
                AfterRead([r EXCEPT !.consumed = @ + 1],
                          answers[r.consumed + 1].took),
                answers[r.consumed + 1])

\* Variant: at the deadline the partial response is dropped.
ReadResultDropsPartial(response, timed_out) ==
  IF timed_out THEN <<>> ELSE <<Strip(response)>>

\* read_response from "timed_out = ..." on: <<>> is None and <<line>> the
\* string returned.
ReadResult(response, timed_out) ==
  IF timed_out /\ response = <<>> THEN <<>> ELSE <<Strip(response)>>

\* V7xDevice.read_response behind its loop: the timeouts are set again, a
\* read error returns None, and the clock is read once more (late: a tick
\* passed since the loop read it).
AfterLoop(d, r, restored, late) ==
  [ret |-> IF r.exit = "error" THEN <<>>
           ELSE ReadResult(r.response,
                           (r.now + late) - r.start >= TimeoutTicks),
   d |-> set_timeouts(d, DefaultTimeouts, restored).d, loop |-> r]

\* V7xDevice.read_response(timeout_ms): env is <<polling, restored, late>>,
\* the statuses of the two HidUart_SetTimeouts and the tick behind the loop.
read_response(d, answers, env) ==
  IF ~d.is_open THEN [ret |-> <<>>, d |-> d, loop |-> StartOfRead]
  ELSE AfterLoop(set_timeouts(d, PollTimeouts, env[1]).d,
                 ReadLoop(FALSE, answers, StartOfRead), env[2], env[3])

\* hipot_cmd.read_response behind its loop: a read error has returned None
\* from inside the loop.
CliAfterLoop(d, r, restored, late) ==
  IF r.exit = "error" THEN [ret |-> <<>>, d |-> d, loop |-> r]
  ELSE [ret |-> ReadResult(r.response, (r.now + late) - r.start >= TimeoutTicks),
        d |-> SetTimeouts(d, DefaultTimeouts, restored), loop |-> r]

\* hipot_cmd.read_response(device_handle, timeout_ms).
cli_read_response(d, answers, env) ==
  CliAfterLoop(SetTimeouts(d, PollTimeouts, env[1]),
               ReadLoop(TRUE, answers, StartOfRead), env[2], env[3])

\* query_command: the read_response r behind the send s.
QueryAnswered(s, r) ==
  [ret |-> r.ret, d |-> r.d, loop |-> r.loop, handed |-> s.handed]

\* Variant: the reply is read whether the command was sent or not.
QueryReadsAnyway(s, answers, env) ==
  QueryAnswered(s, read_response(s.d, answers, env))

\* query_command from "if self.send_command(command)" on; s is what
\* send_command returned.
QueryRead(s, answers, env) ==
  IF s.ret THEN QueryAnswered(s, read_response(s.d, answers, env))
  ELSE [ret |-> <<>>, d |-> s.d, loop |-> StartOfRead, handed |-> s.handed]

\* V7xDevice.query_command(command): written is what HidUart_Write reports,
\* answers and env are those of the read_response behind it.
query_command_bytes(d, command, written, answers, env) ==
  IF ~d.is_open
  THEN [ret |-> <<>>, d |-> d, loop |-> StartOfRead, handed |-> <<>>]
  ELSE QueryRead(send_command_bytes(d, command, written[1], written[2]),
                 answers, env)

(***************************************************************************)
(* Sequence Engine (TestSequencer)                                         *)
(***************************************************************************)
\* Variant: a limit that did not parse is sent as a blank field.
CurrentLimitParamsUnchecked(step_config, min_limit_parsed, max_limit_parsed) ==
  LET blank(v) == IF v = None THEN "" ELSE v
  IN  <<Get(step_config, "voltage", "1000"), Get(step_config, "ramp_time", "1.0"),
        Get(step_config, "dwell_time", "2.0"), blank(min_limit_parsed),
        blank(max_limit_parsed)>>
        \o (IF Get(step_config, "ground_check", FALSE) THEN <<"GND">> ELSE <<>>)

\* The parameters of an ACW or DCW step once its limits went through
\* parse_current_input: None when one of them did not parse (ValueError).
CurrentLimitParams(step_config, min_limit_parsed, max_limit_parsed) ==
  LET params == <<Get(step_config, "voltage", "1000"),
                  Get(step_config, "ramp_time", "1.0"),
                  Get(step_config, "dwell_time", "2.0"),
                  min_limit_parsed, max_limit_parsed>>
  IN  IF min_limit_parsed = None \/ max_limit_parsed = None THEN None
      ELSE IF Get(step_config, "ground_check", FALSE) THEN Append(params, "GND")
      ELSE params

\* The parameter list add_step_to_device builds for a valid test type.
StepParams(step_config, test_type) ==
  IF test_type \in {"ACW", "DCW"}
  THEN CurrentLimitParams(step_config,
                          parse_current_input(Get(step_config, "min_limit", "")),
                          parse_current_input(Get(step_config, "max_limit", "5mA")))
  ELSE IF test_type = "IR"
  THEN <<Get(step_config, "voltage", "500"), Get(step_config, "ramp_time", "1.0"),
         Get(step_config, "dwell_time", "2.0"), Get(step_config, "min_limit", ""),
         Get(step_config, "max_limit", "")>>
  ELSE IF test_type = "CONT"
  THEN <<Get(step_config, "current", "0.1"), Get(step_config, "min_limit", ""),
         Get(step_config, "max_limit", "0.1"), Get(step_config, "dwell_time", "1.0")>>
  ELSE <<Get(step_config, "current", "10"), Get(step_config, "max_limit", "0.1"),
         Get(step_config, "dwell_time", "2.0"), Get(step_config, "freq", "60")>>

RECURSIVE JoinParams(_)
\* "," + str(param) for every parameter, blank ones included.
JoinParams(params) ==
  IF params = <<>> THEN "" ELSE "," \o Head(params) \o JoinParams(Tail(params))

\* Variant: blank parameters are left out of the command.
AddCommandNoBlank(test_type, params) ==
  "ADD," \o test_type \o JoinParams(SelectSeq(params, LAMBDA v : v # ""))

AddCommand(test_type, params) == "ADD," \o test_type \o JoinParams(params)

\* A sequencer operation that ends before its *ERR? verification: the value
\* returned, the state left, and "<unsent>" for the status never read.
Unverified(ret, st) == [ret |-> ret, st |-> st, err_status |-> "<unsent>"]

\* add_step_to_device, the verdict on the reply q to *ERR?.
VerifyAdd(q) ==
  IF q.ret = None THEN [ret |-> TRUE, st |-> q.st, err_status |-> None]
  ELSE IF q.ret # "0" THEN [ret |-> FALSE, st |-> q.st, err_status |-> q.ret]
  ELSE [ret |-> TRUE, st |-> q.st, err_status |-> q.ret]

\* add_step_to_device from the ADD command on; s is what send_command gave.
AfterAdd(s, outcome) ==
  IF ~s.ret THEN Unverified(FALSE, s.st)
  ELSE VerifyAdd(query_command(s.st, "*ERR?", outcome, ""))

\* add_step_to_device once the type is valid; params is None when a limit
\* did not parse.
SendAdd(st, test_type, params, write, accept, outcome) ==
  IF params = None THEN Unverified(FALSE, st)
  ELSE AfterAdd(send_command(st, AddCommand(test_type, params), write, accept),
                outcome)

\* Variant: the sequencer itself appends the step to its list.
add_step_to_device_appending(st, step_config, write, accept, outcome) ==
  IF ~st.is_open THEN Unverified(FALSE, st)
  ELSE IF \/ Get(step_config, "type", None) \in {None, ""}
          \/ Get(step_config, "type", None) \notin TEST_TYPES
  THEN Unverified(FALSE, st)
  ELSE SendAdd([st EXCEPT !.sequence = Append(@, step_config)],
               Get(step_config, "type", None),
               StepParams(step_config, Get(step_config, "type", None)),
               write, accept, outcome)

\* Variant: the type of the step is not validated.
add_step_to_device_any_type(st, step_config, write, accept, outcome) ==
  IF ~st.is_open THEN Unverified(FALSE, st)
  ELSE SendAdd(st, Get(step_config, "type", None),
               StepParams(step_config, Get(step_config, "type", None)),
               write, accept, outcome)

\* add_step_to_device(step_config).  write/accept: the transport's and the
\* instrument's verdict on the ADD command; outcome: how the *ERR? query ends.
add_step_to_device(st, step_config, write, accept, outcome) ==
  IF ~st.is_open THEN Unverified(FALSE, st)
  ELSE IF \/ Get(step_config, "type", None) \in {None, ""}
          \/ Get(step_config, "type", None) \notin TEST_TYPES
  THEN Unverified(FALSE, st)
  ELSE SendAdd(st, Get(step_config, "type", None),
               StepParams(step_config, Get(step_config, "type", None)),
               write, accept, outcome)

\* Variant: an unreadable status after NOSEQ is taken for success.
VerifyClearLenient(q) ==
  IF q.ret \notin {None, "0"} THEN [ret |-> FALSE, st |-> q.st, err_status |-> q.ret]
  ELSE [ret |-> TRUE,
        st |-> [q.st EXCEPT !.sequence = <<>>, !.id = None, !.name = None,
                            !.description = None],
        err_status |-> q.ret]

\* clear_sequence_on_device, the verdict on the reply q to the last *ERR?.
VerifyClear(q) ==
  IF q.ret = None THEN [ret |-> FALSE, st |-> q.st, err_status |-> None]
  ELSE IF q.ret # "0" THEN [ret |-> FALSE, st |-> q.st, err_status |-> q.ret]
  ELSE [ret |-> TRUE,
        st |-> [q.st EXCEPT !.sequence = <<>>, !.id = None, !.name = None,
                            !.description = None],
        err_status |-> q.ret]

\* clear_sequence_on_device from NOSEQ on; n is what send_command gave.
AfterNoseq(n, last) ==
  IF ~n.ret THEN Unverified(FALSE, n.st)
  ELSE VerifyClear(query_command(n.st, "*ERR?", last, ""))

\* clear_sequence_on_device after the first *ERR? (reply q): *CLS when an
\* error is pending, then NOSEQ.
ClearPending(q, cls, noseq, accept, last) ==
  AfterNoseq(send_command(IF q.ret \notin {None, "", "0"}
                          THEN send_command(q.st, "*CLS", cls, TRUE).st
                          ELSE q.st,
                          "NOSEQ", noseq, accept),
             last)

\* clear_sequence_on_device().  first/last: how the two *ERR? queries end;
\* cls, noseq: whether the writes of *CLS and NOSEQ succeed; accept: the
\* instrument's verdict on NOSEQ.
clear_sequence_on_device(st, first, cls, noseq, accept, last) ==
  IF ~st.is_open THEN Unverified(FALSE, st)
  ELSE ClearPending(query_command(st, "*ERR?", first, ""), cls, noseq, accept, last)

\* _parse_step_result splits the reply on commas: the fields of every reply
\* line the model lets the instrument give to STEPRSLT?.
FieldsOf ==
  ("x,y" :> <<"x", "y">>) @@
  ("4,1.2,0,1000,0.005,0.0012" :> <<"4", "1.2", "0", "1000", "0.005", "0.0012">>) @@
  ("4,1.2,0,1000,0.005,0.0012,0.3" :>
     <<"4", "1.2", "0", "1000", "0.005", "0.0012", "0.3">>)

\* Python's {} and, for a value that is a dict otherwise, None.
EmptyDict == [k \in {} |-> ""]

NoDict == [none |-> TRUE]

\* run_sequence returns None
NoResult == [is_none |-> TRUE]

\* _parse_step_result(result_string): the dict of the fields it names.
parse_step_result(result_string) ==
  LET fields == FieldsOf[result_string]
      six == IF Len(fields) >= 6
             THEN [term_state |-> fields[1], elapsed_time |-> fields[2],
                   status_code |-> fields[3], level |-> fields[4],
                   limit |-> fields[5], measurement |-> fields[6]]
             ELSE EmptyDict
  IN  IF Len(fields) >= 7 THEN six @@ [optional1 |-> fields[7]] ELSE six

(***************************************************************************)
(* State                                                                   *)
(***************************************************************************)
VARIABLES
  is_open,                       \* V7xDevice._is_open
  device_handle,                 \* V7xDevice._device_handle
  hid_uart,                      \* the transport: the handles it has given out
                                 \*   and the timeouts in force
  sequence,                      \* TestSequencer.sequence
  current_sequence_id,           \* TestSequencer.current_sequence_id
  current_sequence_name,         \* TestSequencer.current_sequence_name
  current_sequence_description,  \* TestSequencer.current_sequence_description
  devSeq,                        \* the instrument's sequence memory (ADD commands)
  devErr,                        \* the instrument's error register
  run_test_button,               \* MainWindow.run_test_button.isEnabled()
  uiPc,                          \* where the UI thread is inside load_sequence
  load_id,                       \* load_sequence: the sequence id selected
  prog_i,                        \* load_sequence: position of its programming loop
  wpc,                           \* where the TestWorker thread is in run_sequence:
                                 \*   "started", "polling", "collecting", or how it
                                 \*   returned: "not_started" (the guards), "aborted"
                                 \*   (None after *CLS), "done" (the results)
  num_steps,                     \* run_sequence: num_steps (0 outside the call)
  results,                       \* run_sequence: the value returned / emitted
  wsent,                         \* commands the worker sent in its latest step
  last,                          \* the latest direct call of the sequencer
  adds                           \* steps added with success since the list was empty

vars ==
  <<is_open, device_handle, hid_uart, sequence, current_sequence_id,
    current_sequence_name, current_sequence_description, devSeq, devErr,
    run_test_button, uiPc, load_id, prog_i, wpc, num_steps, results, wsent, last,
    adds>>

\* The state record the driver and sequencer operators work on.
St ==
  [is_open |-> is_open, sequence |-> sequence, id |-> current_sequence_id,
   name |-> current_sequence_name, description |-> current_sequence_description,
   devSeq |-> devSeq, devErr |-> devErr, sent |-> <<>>]

Commit(st) ==
  /\ is_open' = st.is_open
  /\ sequence' = st.sequence
  /\ current_sequence_id' = st.id
  /\ current_sequence_name' = st.name
  /\ current_sequence_description' = st.description
  /\ devSeq' = st.devSeq
  /\ devErr' = st.devErr

DriverVars == <<device_handle, hid_uart>>

\* The driver and its transport as a call finds them, and the library calls
\* the call makes.
Driver ==
  [is_open |-> is_open, handle |-> device_handle, live |-> hid_uart.live,
   timeouts |-> hid_uart.timeouts, calls |-> <<>>]

\* The handle and the transport as a call leaves them.
Held(d) ==
  /\ device_handle' = d.handle
  /\ hid_uart' = [live |-> d.live, timeouts |-> d.timeouts]

\* V7xDevice.__init__: no handle; the library has its own timeouts.
NoDevice == [live |-> 0, timeouts |-> LibraryTimeouts]

\* The transport behind an open driver whose open() had every call accepted.
OneDevice == [live |-> 1, timeouts |-> DefaultTimeouts]

RECURSIVE SeqsUpTo(_, _)
\* The sequences over S of length at most n.
SeqsUpTo(S, n) ==
  IF n = 0 THEN {<<>>}
  ELSE LET shorter == SeqsUpTo(S, n - 1)
       IN  shorter \cup {Append(q, e) : q \in shorter, e \in S}

\* The ADD command of a valid step configuration.
CommandOf(step_config) ==
  AddCommand(step_config.type, StepParams(step_config, step_config.type))

\* The datastore (environment): the headers it may hold.
SequenceIds == {"seq-1"}

NameOf(sequence_id) == "name of " \o sequence_id

DescriptionOf(sequence_id) == "description of " \o sequence_id

NoCall == [op |-> "none"]

\* adds: the steps open_test_setup_dialog added with success, in order, and
\* whether an attempt failed, since the list was last emptied by a clear;
\* valid is FALSE once a load filled the list instead.
NoAdds == [valid |-> TRUE, steps |-> <<>>, failed |-> FALSE]

LoadedAdds == [valid |-> FALSE, steps |-> <<>>, failed |-> FALSE]

WorkerIdle ==
  /\ wpc = "idle"
  /\ num_steps = 0
  /\ results = NoResult
  /\ wsent = <<>>

\* MainWindow.__init__: nothing connected, an empty sequencer; the instrument
\* holds no step and may hold an error from before.
Init ==
  /\ is_open = FALSE
  /\ device_handle = NullHandle
  /\ hid_uart = NoDevice
  /\ sequence = <<>>
  /\ current_sequence_id = None
  /\ current_sequence_name = None
  /\ current_sequence_description = None
  /\ devSeq = <<>>
  /\ devErr \in {NoError, DeviceError}
  /\ run_test_button = FALSE
  /\ uiPc = "idle"
  /\ load_id = None
  /\ prog_i = 0
  /\ WorkerIdle
  /\ last = NoCall
  /\ adds = NoAdds

(***************************************************************************)
(* The environment's choices for one call, without the ones the call       *)
(* never looks at.                                                         *)
(***************************************************************************)
\* add_step_to_device: <<write, accept, outcome>> for the ADD command and the
\* *ERR? query behind it.
AddEnvs(outcomes) ==
  {<<FALSE, FALSE, "line">>}
    \cup {<<TRUE, accept, outcome>> : accept \in BOOLEAN, outcome \in outcomes}

\* clear_sequence_on_device: <<first, cls, noseq, accept, last>>; *CLS is
\* written only when the first *ERR? reads a non-zero register.
ClearEnvs(st, firsts, outcomes) ==
  {env \in firsts \X BOOLEAN \X BOOLEAN \X BOOLEAN \X outcomes :
     /\ (env[1] # "line" \/ st.devErr = NoError) => env[2]
     /\ ~env[3] => (env[4] /\ env[5] = "line")}

\* One turn of the polling loop: <<outcome, answer, abort>>; ABORT is written
\* only when the answer is unexpected.
PollEnvs(outcomes, answers) ==
  {<<outcome, "0", TRUE>> : outcome \in outcomes \ {"line"}}
    \cup {<<"line", answer, TRUE>> : answer \in answers}
    \cup {<<"line", answer, FALSE>> : answer \in answers \ {"0", "1"}}

\* The query outcomes the handlers of the application are explored with (a
\* failed write is explored on the commands, and on the queries in SpecApi).
UiOutcomes == {"line", "no_reply"}

\* How the handlers' first *ERR? of a clear ends (every way is in SpecApi; the
\* instrument's register reads zero after each of them).
UiFirstOutcomes == {"line"}

(***************************************************************************)
(* MainWindow handlers (UI thread)                                         *)
(***************************************************************************)
UiVars == <<uiPc, load_id, prog_i>>

WorkerVars == <<wpc, num_steps, results, wsent>>

\* send_direct_command(command): a query when the command ends with "?",
\* otherwise a send followed by an *ERR? query.
send_direct_command(st, command, write, outcome) ==
  IF ~st.is_open THEN st
  ELSE IF command \in {"*IDN?", "*ERR?", "RUN?", "RSLT?"}
  THEN query_command(st, command, outcome, "V7X").st
  ELSE LET s == send_command(st, command, write, TRUE)
       IN  IF s.ret THEN query_command(s.st, "*ERR?", outcome, "").st ELSE s.st

\* The transport's answers to the open() of the handlers: HidUart_Open fails
\* or every call succeeds (the other answers are in SpecApi and SpecDriver).
UiOpenEnvs == {<<opened, TRUE, TRUE, TRUE, TRUE>> : opened \in BOOLEAN}

\* connect_device: device.open() succeeds or not; *IDN? is queried on success
\* and update_ui_connection_state sets the buttons.
connect_device ==
  /\ uiPc = "idle"
  /\ ~is_open
  /\ \E env \in UiOpenEnvs, outcome \in UiOutcomes :
       /\ Commit(IF open(Driver, env).ret
                 THEN send_direct_command([St EXCEPT !.is_open = TRUE], "*IDN?",
                                          TRUE, outcome)
                 ELSE St)
       /\ Held(open(Driver, env).d)
       /\ run_test_button' = open(Driver, env).ret
  /\ UNCHANGED <<UiVars, WorkerVars, last, adds>>

\* disconnect_device: close() always ends closed.
disconnect_device ==
  /\ uiPc = "idle"
  /\ is_open
  /\ is_open' = FALSE
  /\ \E status \in BOOLEAN : Held(close(Driver, status).d)
  /\ run_test_button' = FALSE
  /\ UNCHANGED <<sequence, current_sequence_id, current_sequence_name,
                 current_sequence_description, devSeq, devErr, UiVars, WorkerVars,
                 last, adds>>

\* The commands typed into the direct-command field.
DirectCommands == {"*IDN?", "*CLS"}

send_direct_command_from_input ==
  /\ uiPc = "idle"
  /\ is_open
  /\ \E command \in DirectCommands, write \in BOOLEAN,
        outcome \in UiOutcomes :
       /\ command = "*IDN?" => write
       /\ ~write => outcome = "line"
       /\ Commit(send_direct_command(St, command, write, outcome))
  /\ UNCHANGED <<DriverVars, run_test_button, UiVars, WorkerVars, last, adds>>

\* Variant: the step is appended whatever add_step_to_device returned.
AddedSequenceAlways(r, step_config) ==
  [r.st EXCEPT !.sequence = Append(@, step_config)]

\* open_test_setup_dialog after add_step_to_device returned r: the step is
\* appended to the local list only when it reports success.
AddedSequence(r, step_config) ==
  IF r.ret THEN [r.st EXCEPT !.sequence = Append(@, step_config)] ELSE r.st

\* open_test_setup_dialog with the dialog accepted.
open_test_setup_dialog ==
  /\ uiPc = "idle"
  /\ is_open
  /\ Len(sequence) < MaxSteps
  /\ \E step_config \in DialogConfigs, env \in AddEnvs(UiOutcomes) :
       LET r == add_step_to_device(St, step_config, env[1], env[2], env[3])
       IN  /\ Commit(AddedSequence(r, step_config))
           /\ adds' = IF ~adds.valid THEN adds
                      ELSE IF r.ret THEN [adds EXCEPT !.steps = Append(@, step_config)]
                      ELSE [adds EXCEPT !.failed = TRUE]
  /\ UNCHANGED <<DriverVars, run_test_button, UiVars, WorkerVars, last>>

\* clear_sequence with the confirmation answered Yes (the button is enabled
\* only while connected).
clear_sequence ==
  /\ uiPc = "idle"
  /\ is_open
  /\ \E env \in ClearEnvs(St, UiFirstOutcomes, UiOutcomes) :
       LET r == clear_sequence_on_device(St, env[1], env[2], env[3], env[4], env[5])
       IN  /\ Commit(r.st)
           /\ adds' = IF r.ret THEN NoAdds ELSE adds
  /\ UNCHANGED <<DriverVars, run_test_button, UiVars, WorkerVars, last>>

\* What run_test itself asks for before it starts a thread: the button can be
\* pressed and the device is open.
RunTestEnabled ==
  /\ uiPc = "idle"
  /\ is_open
  /\ run_test_button

\* run_test: starts the TestWorker thread; with an empty local list the
\* operator is asked whether to run what the instrument holds (answer Yes).
\* One run at a time is explored: the thread is started only when none is
\* active.
run_test ==
  /\ RunTestEnabled
  /\ WorkerIdle
  /\ run_test_button' = FALSE
  /\ wpc' = "started"
  /\ UNCHANGED <<DriverVars, is_open, sequence, current_sequence_id, current_sequence_name,
                 current_sequence_description, devSeq, devErr, UiVars, num_steps,
                 results, wsent, last, adds>>

\* handle_test_results: the finished signal re-enables the button; the
\* thread and worker references are dropped.
handle_test_results ==
  /\ uiPc = "idle"
  /\ wpc \in {"not_started", "aborted", "done"}
  /\ run_test_button' = TRUE
  /\ wpc' = "idle"
  /\ num_steps' = 0
  /\ results' = NoResult
  /\ wsent' = <<>>
  /\ UNCHANGED <<DriverVars, is_open, sequence, current_sequence_id, current_sequence_name,
                 current_sequence_description, devSeq, devErr, UiVars, last, adds>>

\* load_sequence up to the confirmation prompt, answered Yes (clear the
\* device first; a failed clear ends the load) or No (only the local list
\* is emptied).
load_sequence ==
  /\ uiPc = "idle"
  /\ is_open
  /\ \E sequence_id \in SequenceIds, reply \in {"Yes", "No"} :
       IF reply = "Yes"
       THEN \E env \in ClearEnvs(St, UiFirstOutcomes, UiOutcomes) :
              LET r == clear_sequence_on_device(St, env[1], env[2], env[3], env[4],
                                                env[5])
              IN  /\ Commit(r.st)
                  /\ adds' = IF r.ret THEN NoAdds ELSE adds
                  /\ uiPc' = IF r.ret THEN "load_fetch" ELSE "idle"
                  /\ load_id' = IF r.ret THEN sequence_id ELSE None
       ELSE /\ Commit([St EXCEPT !.sequence = <<>>])
            /\ adds' = NoAdds
            /\ uiPc' = "load_fetch"
            /\ load_id' = sequence_id
  /\ UNCHANGED <<DriverVars, run_test_button, prog_i, WorkerVars, last>>

\* What the datastore answers to a load: no header row, or an exception.
LoadFailures == {"not_found", "exception"}

\* load_sequence_from_supabase past its guards: loaded is a failure or the
\* list of the stored steps that decode.
LoadFromDatastore(st, sequence_id, loaded) ==
  IF loaded \in LoadFailures
  THEN [ret |-> None,
        st |-> [st EXCEPT !.sequence = <<>>, !.id = None, !.name = None,
                          !.description = None]]
  ELSE [ret |-> loaded,
        st |-> [st EXCEPT !.sequence = loaded, !.id = sequence_id,
                          !.name = NameOf(sequence_id),
                          !.description = DescriptionOf(sequence_id)]]

\* load_sequence_from_supabase(sequence_id) on a sequencer built with or
\* without a datastore client: without one, or without an id, nothing is
\* touched.
load_sequence_from_supabase(st, supabase_client, sequence_id, loaded) ==
  IF ~supabase_client \/ sequence_id = None THEN [ret |-> None, st |-> st]
  ELSE LoadFromDatastore(st, sequence_id, loaded)

\* The id the datastore gives to a new header row.
NewSequenceId == "seq-2"

\* What the datastore does with a save: the header insert is rejected (a
\* duplicate name or another error) or raises, the insert of the steps is
\* rejected or raises, or both rows are stored.
SaveOutcomes ==
  {"header_rejected", "header_exception", "steps_rejected", "steps_exception",
   "saved"}

Unsaved(st) == [st EXCEPT !.id = None, !.name = None, !.description = None]

\* save_sequence_to_supabase(sequence_name, description).
save_sequence_to_supabase(st, supabase_client, sequence_name, description, outcome) ==
  IF ~supabase_client \/ st.sequence = <<>> \/ sequence_name = ""
  THEN [ret |-> FALSE, st |-> st]
  ELSE IF outcome = "header_rejected" THEN [ret |-> FALSE, st |-> st]
  ELSE IF outcome \in {"header_exception", "steps_rejected", "steps_exception"}
  THEN [ret |-> FALSE, st |-> Unsaved(st)]
  ELSE [ret |-> TRUE,
        st |-> [st EXCEPT !.id = NewSequenceId, !.name = sequence_name,
                          !.description = description]]

\* load_sequence, the datastore read: the loaded list replaces the local one
\* before any step is programmed onto the instrument.
load_sequence_fetch ==
  /\ uiPc = "load_fetch"
  /\ \E loaded \in LoadFailures \cup SeqsUpTo(StoredConfigs, MaxSteps) :
       LET r == load_sequence_from_supabase(St, TRUE, load_id, loaded)
       IN  /\ Commit(r.st)
           /\ uiPc' = IF r.ret = None \/ r.st.sequence = <<>> THEN "idle"
                      ELSE "programming"
           /\ prog_i' = IF r.ret = None \/ r.st.sequence = <<>> THEN 0 ELSE 1
           /\ adds' = IF r.st.sequence = <<>> THEN NoAdds ELSE LoadedAdds
  /\ load_id' = None
  /\ UNCHANGED <<DriverVars, run_test_button, WorkerVars, last>>

\* load_sequence, one turn of the programming loop: the first step the
\* instrument does not take ends the loop.
load_sequence_program ==
  /\ uiPc = "programming"
  /\ \E env \in AddEnvs(UiOutcomes) :
       LET r == add_step_to_device(St, sequence[prog_i], env[1], env[2], env[3])
           more == r.ret /\ prog_i < Len(sequence)
       IN  /\ Commit(r.st)
           /\ uiPc' = IF more THEN "programming" ELSE "idle"
           /\ prog_i' = IF more THEN prog_i + 1 ELSE 0
  /\ UNCHANGED <<DriverVars, run_test_button, load_id, WorkerVars, last, adds>>

(***************************************************************************)
(* Run Controller: TestSequencer.run_sequence on the TestWorker thread     *)
(***************************************************************************)
\* The reply lines the instrument gives to RUN? and to RSLT?.
RunAnswers == {"0", "1", "2"}

OverallAnswers == {"0"}

\* Variant: an empty list does not stop the run.
RunRefusedWhenClosed(st) == ~st.is_open

\* run_sequence, the guards: the device is not open or the list is empty.
RunRefused(st) == ~st.is_open \/ Len(st.sequence) <= 0

\* Variant: a RUN that could not be sent is taken as started.
RunNotSentPolls(e) ==
  [wpc |-> "polling", st |-> e.st, num_steps |-> Len(e.st.sequence)]

\* send_command("RUN") returned False; e is the *ERR? query made for the log.
RunNotSent(e) == [wpc |-> "aborted", st |-> e.st, num_steps |-> 0]

\* r is what send_command("RUN") returned.
AfterRun(r, outcome) ==
  IF ~r.ret THEN RunNotSent(query_command(r.st, "*ERR?", outcome, ""))
  ELSE [wpc |-> "polling", st |-> r.st, num_steps |-> Len(r.st.sequence)]

\* run_sequence up to the polling loop: the guards, *CLS, RUN.  The result is
\* where the run stands, with num_steps as the run took it from the list.
run_sequence_start(st, cls, run, outcome) ==
  IF RunRefused(st) THEN [wpc |-> "not_started", st |-> st, num_steps |-> 0]
  ELSE AfterRun(send_command(send_command(st, "*CLS", cls, TRUE).st, "RUN",
                             run, TRUE), outcome)

run_sequence_begin ==
  /\ wpc = "started"
  /\ \E cls \in BOOLEAN, run \in BOOLEAN, outcome \in UiOutcomes :
       LET s == run_sequence_start(St, cls, run, outcome)
       IN  /\ Commit(s.st)
           /\ num_steps' = s.num_steps
           /\ wsent' = s.st.sent
           /\ wpc' = s.wpc
  /\ results' = NoResult
  /\ UNCHANGED <<DriverVars, run_test_button, UiVars, last, adds>>

\* Variant: only "0" ends the loop; any other reading is polled again.
PollStatusLenient(run_status) ==
  IF run_status = "0" THEN "collecting" ELSE "polling"

\* Variant: a RUN? that cannot be read ends the run.
PollStatusStrict(run_status) ==
  IF run_status = "0" THEN "collecting"
  ELSE IF run_status = "1" THEN "polling"
  ELSE "aborted"

\* The branches of the loop body on run_status.
PollStatus(run_status) ==
  IF run_status = "0" THEN "collecting"
  ELSE IF run_status = "1" THEN "polling"
  ELSE IF run_status = None THEN "polling"
  ELSE "aborted"

\* q is what query_command("RUN?") returned; abort: the write of ABORT.
AfterPoll(q, abort) ==
  IF PollStatus(q.ret) = "aborted"
  THEN [wpc |-> "aborted", st |-> send_command(q.st, "ABORT", abort, TRUE).st]
  ELSE [wpc |-> PollStatus(q.ret), st |-> q.st]

\* One turn of the polling loop, the ceiling not yet passed.
run_sequence_turn(st, outcome, answer, abort) ==
  AfterPoll(query_command(st, "RUN?", outcome, answer), abort)

run_sequence_poll ==
  /\ wpc = "polling"
  /\ \E env \in PollEnvs(UiOutcomes, RunAnswers) :
       LET t == run_sequence_turn(St, env[1], env[2], env[3])
       IN  /\ Commit(t.st)
           /\ wsent' = t.st.sent
           /\ wpc' = t.wpc
           /\ num_steps' = IF t.wpc = "aborted" THEN 0 ELSE num_steps
  /\ UNCHANGED <<DriverVars, run_test_button, UiVars, results, last, adds>>

\* Variant: the ceiling passes and the results are collected.
TimedOutCollects(a) == [wpc |-> "collecting", st |-> a.st]

\* Variant: the ceiling passes and the loop is entered again.
TimedOutPolls(a) == [wpc |-> "polling", st |-> a.st]

\* The else branch of the loop; a is what send_command("ABORT") returned.
TimedOut(a) == [wpc |-> "aborted", st |-> a.st]

\* The loop condition finds the ceiling of max_wait_sec passed.
run_sequence_timeout ==
  /\ wpc = "polling"
  /\ \E abort \in BOOLEAN :
       LET t == TimedOut(send_command(St, "ABORT", abort, TRUE))
       IN  /\ Commit(t.st)
           /\ wsent' = t.st.sent
           /\ wpc' = t.wpc
           /\ num_steps' = IF t.wpc = "aborted" THEN 0 ELSE num_steps
  /\ UNCHANGED <<DriverVars, run_test_button, UiVars, results, last, adds>>

\* The entry of step i: parsed stays None when the reply is None or empty.
StepData(i, step_result_str) ==
  [step_number |-> i, raw |-> step_result_str,
   parsed |-> IF step_result_str \notin {None, ""}
              THEN parse_step_result(step_result_str) ELSE NoDict]

\* The query of step i; reply is <<outcome, answer>>.  The queries of the
\* results change nothing in the driver or the instrument, so that each is
\* made on the state st the loop is entered in, and leaves its command in sent.
StepResult(st, i, reply) ==
  query_command([st EXCEPT !.sent = <<>>], StepResultQuery(i), reply[1], reply[2])

RECURSIVE StepQueriesSent(_, _, _, _)
\* What the STEPRSLT? loop hands to the transport from step i on.
StepQueriesSent(st, i, n, replies) ==
  IF i > n THEN <<>>
  ELSE StepResult(st, i, replies[i]).st.sent \o StepQueriesSent(st, i + 1, n, replies)

\* The STEPRSLT? loop, for i in range(1, n + 1): replies[i] is how the query
\* of step i ends.
CollectSteps(st, n, replies) ==
  [st |-> [st EXCEPT !.sent = @ \o StepQueriesSent(st, 1, n, replies)],
   steps |-> [i \in 1..n |-> StepData(i, StepResult(st, i, replies[i]).ret)]]

\* How a STEPRSLT? query is let to end: a record of six fields, of seven, of
\* two, nothing read.
StepReplies ==
  {<<"line", "4,1.2,0,1000,0.005,0.0012">>,
   <<"line", "4,1.2,0,1000,0.005,0.0012,0.3">>, <<"line", "x,y">>,
   <<"no_reply", "">>}

\* How the RSLT? query is let to end.
OverallOutcomes == {"line", "no_reply"}

\* The replies the worker of the application is explored with (every reply
\* is explored in SpecRun).
UiStepReplies == {<<"line", "4,1.2,0,1000,0.005,0.0012">>}

\* Variant: a step that is not decoded makes the run return None.
RunResultsStrict(overall, steps) ==
  IF \E i \in DOMAIN steps : steps[i].parsed \in {NoDict, EmptyDict}
  THEN NoResult
  ELSE [is_none |-> FALSE, overall |-> overall, steps |-> steps]

\* results = {'overall': ..., 'steps': [...]}, as run_sequence returns it.
RunResults(overall, steps) ==
  [is_none |-> FALSE, overall |-> overall, steps |-> steps]

\* run_sequence after the loop: RSLT?, then STEPRSLT?,i for i in 1..num_steps.
run_sequence_results(outcomes, step_replies) ==
  /\ wpc = "collecting"
  /\ \E outcome \in outcomes, answer \in OverallAnswers,
        replies \in [1..num_steps -> step_replies] :
       LET o == query_command(St, "RSLT?", outcome, answer)
           c == CollectSteps(o.st, num_steps, replies)
       IN  /\ Commit(c.st)
           /\ wsent' = c.st.sent
           /\ results' = RunResults(o.ret, c.steps)
  /\ wpc' = "done"
  /\ num_steps' = 0
  /\ UNCHANGED <<DriverVars, run_test_button, UiVars, last, adds>>

run_sequence_collect == run_sequence_results({"line"}, UiStepReplies)

\* The loop left at turn k.
PollEnded(t, k) == [wpc |-> t.wpc, st |-> t.st, turns |-> k]

RECURSIVE PollLoop(_, _, _, _)
\* t is where turn k of the loop left the run.
PollTurn(t, polls, k, abort) ==
  IF t.wpc = "polling" THEN PollLoop(t.st, polls, k + 1, abort)
  ELSE PollEnded(t, k)

\* The polling loop from turn k on: polls[k] is how turn k ends, as
\* <<outcome, answer, abort>>, and the ceiling of max_wait_sec has passed
\* when polls is used up.
PollLoop(st, polls, k, abort) ==
  IF k > Len(polls)
  THEN PollEnded(TimedOut(send_command(st, "ABORT", abort, TRUE)), Len(polls))
  ELSE PollTurn(run_sequence_turn(st, polls[k][1], polls[k][2], polls[k][3]),
                polls, k, abort)

\* run_sequence returns None.
RunEnded(wpc_, st, turns) ==
  [wpc |-> wpc_, st |-> st, turns |-> turns, results |-> NoResult]

\* o is what query_command("RSLT?") returned.
RunCollected(o, turns, n, replies) ==
  [wpc |-> "done", st |-> CollectSteps(o.st, n, replies).st, turns |-> turns,
   results |-> RunResults(o.ret, CollectSteps(o.st, n, replies).steps)]

\* Variant: the results are collected however the loop ended.
RunPolledCollects(p, n, overall, replies) ==
  RunCollected(query_command(p.st, "RSLT?", overall[1], overall[2]), p.turns, n,
               replies)

\* p is how the polling loop ended.
RunPolled(p, n, overall, replies) ==
  IF p.wpc = "collecting"
  THEN RunCollected(query_command(p.st, "RSLT?", overall[1], overall[2]),
                    p.turns, n, replies)
  ELSE RunEnded(p.wpc, p.st, p.turns)

\* s is where run_sequence stands before the loop.
RunStarted(s, polls, abort, overall, replies) ==
  IF s.wpc = "polling"
  THEN RunPolled(PollLoop(s.st, polls, 1, abort), s.num_steps, overall, replies)
  ELSE RunEnded(s.wpc, s.st, 0)

\* run_sequence() from its call to its return.
run_sequence(st, cls, run, outcome, polls, abort, overall, replies) ==
  RunStarted(run_sequence_start(st, cls, run, outcome), polls, abort, overall,
             replies)

\* overall_pass = (overall_status_code == '0')
overall_pass(run_results) == ~run_results.is_none /\ run_results.overall = "0"

(***************************************************************************)
(* The sequencer called directly, once, in any state                       *)
(***************************************************************************)
\* add_step_to_device(step_config), recorded in last.
call_add_step_to_device ==
  /\ last = NoCall
  /\ \E step_config \in StepConfigs, env \in AddEnvs(QueryOutcomes) :
       LET r == add_step_to_device(St, step_config, env[1], env[2], env[3])
       IN  /\ Commit(r.st)
           /\ last' = [op |-> "add", step_config |-> step_config, ret |-> r.ret,
                       err_status |-> r.err_status, before |-> St, after |-> r.st]
  /\ UNCHANGED <<DriverVars, run_test_button, UiVars, WorkerVars, adds>>

\* clear_sequence_on_device(), recorded in last.
call_clear_sequence_on_device ==
  /\ last = NoCall
  /\ \E env \in ClearEnvs(St, QueryOutcomes, QueryOutcomes) :
       LET r == clear_sequence_on_device(St, env[1], env[2], env[3], env[4], env[5])
       IN  /\ Commit(r.st)
           /\ last' = [op |-> "clear", step_config |-> EmptyDict, ret |-> r.ret,
                       err_status |-> r.err_status, before |-> St, after |-> r.st]
  /\ UNCHANGED <<DriverVars, run_test_button, UiVars, WorkerVars, adds>>

\* save_sequence_to_supabase(sequence_name, description), recorded in last.
call_save_sequence_to_supabase ==
  /\ last = NoCall
  /\ \E supabase_client \in BOOLEAN, sequence_name \in {"", "name"},
        outcome \in SaveOutcomes :
       LET r == save_sequence_to_supabase(St, supabase_client, sequence_name, "",
                                          outcome)
       IN  /\ Commit(r.st)
           /\ last' = [op |-> "save", supabase_client |-> supabase_client,
                       sequence_name |-> sequence_name, outcome |-> outcome,
                       ret |-> r.ret, before |-> St, after |-> r.st]
  /\ UNCHANGED <<DriverVars, run_test_button, UiVars, WorkerVars, adds>>

\* load_sequence_from_supabase(sequence_id), recorded in last.
call_load_sequence_from_supabase ==
  /\ last = NoCall
  /\ \E supabase_client \in BOOLEAN, sequence_id \in {None} \cup SequenceIds,
        loaded \in LoadFailures \cup SeqsUpTo(StoredConfigs, MaxSteps) :
       LET r == load_sequence_from_supabase(St, supabase_client, sequence_id, loaded)
       IN  /\ Commit(r.st)
           /\ last' = [op |-> "load", supabase_client |-> supabase_client,
                       sequence_id |-> sequence_id, loaded |-> loaded,
                       ret |-> r.ret, before |-> St, after |-> r.st]
  /\ UNCHANGED <<DriverVars, run_test_button, UiVars, WorkerVars, adds>>

\* The ghost record holds one send or read: a behaviour of the driver is a
\* sequence of open() and close() calls with one send or read at its end.
NoTransferRecorded == last.op \notin {"send", "read", "query", "requery"}

\* open() on the driver in the state it is in, recorded in last.
driver_open ==
  /\ NoTransferRecorded
  /\ \E env \in OpenEnvs :
       /\ is_open' = open(Driver, env).d.is_open
       /\ Held(open(Driver, env).d)
       /\ last' = [op |-> "open", ret |-> open(Driver, env).ret,
                   before |-> Driver, after |-> open(Driver, env).d]
  /\ UNCHANGED <<sequence, current_sequence_id, current_sequence_name,
                 current_sequence_description, devSeq, devErr, run_test_button,
                 UiVars, WorkerVars, adds>>

\* close() on the driver in the state it is in, recorded in last.
driver_close ==
  /\ NoTransferRecorded
  /\ \E status \in BOOLEAN :
       /\ is_open' = close(Driver, status).d.is_open
       /\ Held(close(Driver, status).d)
       /\ last' = [op |-> "close", ret |-> close(Driver, status).ret,
                   before |-> Driver, after |-> close(Driver, status).d]
  /\ UNCHANGED <<sequence, current_sequence_id, current_sequence_name,
                 current_sequence_description, devSeq, devErr, run_test_button,
                 UiVars, WorkerVars, adds>>

\* The commands send_command is explored with.
Commands == SeqsUpTo({"R", "?", CR}, MaxCommandLen)

\* What HidUart_Write reports for a buffer: a failure, or a success with
\* every byte or one byte fewer written.
WriteEnvs(wire) == {<<FALSE, 0>>, <<TRUE, Len(wire)>>, <<TRUE, Len(wire) - 1>>}

\* send_command(command) on the driver in the state it is in, recorded in last.
driver_send_command ==
  /\ NoTransferRecorded
  /\ \E command \in Commands :
       \E env \in WriteEnvs(WireBytes(command)) :
         last' = [op |-> "send", command |-> command, status |-> env[1],
                  bytes_written |-> env[2],
                  ret |-> send_command_bytes(Driver, command, env[1], env[2]).ret,
                  handed |->
                    send_command_bytes(Driver, command, env[1], env[2]).handed,
                  before |-> Driver,
                  after |-> send_command_bytes(Driver, command, env[1], env[2]).d]
  /\ UNCHANGED <<is_open, DriverVars, sequence, current_sequence_id,
                 current_sequence_name, current_sequence_description, devSeq,
                 devErr, run_test_button, UiVars, WorkerVars, adds>>

\* The answers of HidUart_Read: a byte at once (a letter, a blank, a
\* carriage return, a line feed), a letter after a tick, no byte, a read that
\* timed out after a tick, an error.
ReadAnswers ==
  {ReadAnswer("success", <<b>>, 0) : b \in {"R", " ", CR, LF}}
    \cup {ReadAnswer("success", <<"R">>, 1), ReadAnswer("success", <<>>, 0),
          SilentRead, ReadAnswer("error", <<>>, 0)}

\* read_response: the statuses of its two HidUart_SetTimeouts and whether a
\* tick passes between the loop and the last reading of the clock.
ReadEnvs == BOOLEAN \X BOOLEAN \X {0, 1}

\* The answers and the environment of one read_response, without the ones
\* it never asks for: nothing is read while the driver is not open.
ReadCalls ==
  IF is_open THEN SeqsUpTo(ReadAnswers, MaxReads) \X ReadEnvs
  ELSE {<<<<>>, <<TRUE, TRUE, 0>>>>}

\* One read_response that returned r, recorded in last.
ReadRecorded(module, answers, env, r) ==
  /\ Held(r.d)
  /\ last' = [op |-> "read", module |-> module, answers |-> answers, env |-> env,
              ret |-> r.ret, consumed |-> r.loop.consumed, reads |-> r.loop.reads,
              last_read_at |-> r.loop.last_read_at, before |-> Driver,
              after |-> r.d]

\* V7xDevice.read_response() on the driver in the state it is in.
driver_read_response ==
  /\ NoTransferRecorded
  /\ \E call \in ReadCalls :
       ReadRecorded("v7x_device", call[1], call[2],
                    read_response(Driver, call[1], call[2]))
  /\ UNCHANGED <<is_open, sequence, current_sequence_id, current_sequence_name,
                 current_sequence_description, devSeq, devErr, run_test_button,
                 UiVars, WorkerVars, adds>>

\* hipot_cmd.read_response(device_handle) on the device its caller opened.
hipot_cmd_read_response ==
  /\ NoTransferRecorded
  /\ is_open
  /\ \E call \in ReadCalls :
       ReadRecorded("hipot_cmd", call[1], call[2],
                    cli_read_response(Driver, call[1], call[2]))
  /\ UNCHANGED <<is_open, sequence, current_sequence_id, current_sequence_name,
                 current_sequence_description, devSeq, devErr, run_test_button,
                 UiVars, WorkerVars, adds>>

\* The query query_command is explored with.
Queries == {<<"R", "?">>}

\* What HidUart_Write reports and what the read_response behind it meets, for
\* one query_command: the write fails and nothing is read, or it succeeds
\* and the reply is read with the timeouts accepted (the other answers of
\* the transport are explored on send_command and read_response).
QueryCalls(command) ==
  {<<<<FALSE, 0>>, <<>>, <<TRUE, TRUE, 0>>>>}
    \cup {<<<<TRUE, Len(WireBytes(command))>>, answers, <<TRUE, TRUE, late>>>> :
            answers \in SeqsUpTo(ReadAnswers, MaxReads), late \in {0, 1}}

\* One query_command that returned r, recorded in last.
QueryRecorded(command, written, answers, env, r) ==
  /\ Held(r.d)
  /\ last' = [op |-> "query", command |-> command, status |-> written[1],
              bytes_written |-> written[2], answers |-> answers, env |-> env,
              ret |-> r.ret, handed |-> r.handed, consumed |-> r.loop.consumed,
              reads |-> r.loop.reads, before |-> Driver, after |-> r.d]

\* V7xDevice.query_command() on the driver in the state it is in.
driver_query_command ==
  /\ NoTransferRecorded
  /\ \E command \in Queries :
       \E call \in QueryCalls(command) :
         QueryRecorded(command, call[1], call[2], call[3],
                       query_command_bytes(Driver, command, call[1], call[2],
                                           call[3]))
  /\ UNCHANGED <<is_open, sequence, current_sequence_id, current_sequence_name,
                 current_sequence_description, devSeq, devErr, run_test_button,
                 UiVars, WorkerVars, adds>>

\* The bytes of the reply to an earlier query that its read_response did not
\* take: they were behind the line feed it stopped at, or came after its
\* deadline.  They wait in the receive buffer of the library, which only
\* open() flushes.
Pending(answers, consumed) ==
  SelectSeq([k \in 1..(Len(answers) - consumed) |->
               ReadAnswer(answers[consumed + k].status, answers[consumed + k].bytes, 0)],
            LAMBDA e : e.status = "success" /\ e.bytes # <<>>)

\* The query that follows and the reply of the instrument to it, as the
\* answers of HidUart_Read.
NextQuery == <<"?">>

OwnReply ==
  <<ReadAnswer("success", <<"0">>, 0), ReadAnswer("success", <<LF>>, 0)>>

\* A second query_command() right behind one that was sent: its
\* read_response meets what the first left unread, then the reply to its own
\* command.
driver_query_again ==
  /\ last.op = "query"
  /\ last.before.is_open
  /\ last.status
  /\ LET written == <<TRUE, Len(WireBytes(NextQuery))>>
         answers == Pending(last.answers, last.consumed) \o OwnReply
         r == query_command_bytes(Driver, NextQuery, written, answers,
                                  <<TRUE, TRUE, 0>>)
     IN  /\ Held(r.d)
         /\ last' = [op |-> "requery", command |-> NextQuery,
                     pending |-> Pending(last.answers, last.consumed),
                     earlier |-> last.ret, ret |-> r.ret, handed |-> r.handed,
                     consumed |-> r.loop.consumed, before |-> Driver,
                     after |-> r.d]
  /\ UNCHANGED <<is_open, sequence, current_sequence_id, current_sequence_name,
                 current_sequence_description, devSeq, devErr, run_test_button,
                 UiVars, WorkerVars, adds>>

\* The longest input parse_current_input is explored with, and the
\* characters its inputs are made of.
MaxInputLen == 4

InputChars == {"0", "1", "5", ".", "-", "e", "m", "u", "A", " ", "x"}

\* parse_current_input(input_str), recorded in last.
call_parse_current_input ==
  /\ last = NoCall
  /\ \E input_str \in SeqsUpTo(InputChars, MaxInputLen) :
       last' = [op |-> "parse", input_str |-> input_str,
                ret |-> parse_current_chars(input_str)]
  /\ UNCHANGED <<is_open, DriverVars, sequence, current_sequence_id,
                 current_sequence_name, current_sequence_description, devSeq,
                 devErr, run_test_button, UiVars, WorkerVars, adds>>

\* open(), recorded in last.
call_open ==
  /\ last = NoCall
  /\ \E env \in OpenEnvs :
       /\ is_open' = open(Driver, env).d.is_open
       /\ Held(open(Driver, env).d)
       /\ last' = [op |-> "open", ret |-> open(Driver, env).ret,
                   before |-> Driver, after |-> open(Driver, env).d]
  /\ UNCHANGED <<sequence, current_sequence_id, current_sequence_name,
                 current_sequence_description, devSeq, devErr, run_test_button,
                 UiVars, WorkerVars, adds>>

\* Any state of the driver, the sequencer and the instrument.
InitApi ==
  /\ is_open \in BOOLEAN
  /\ device_handle = (IF is_open THEN DeviceHandle ELSE NullHandle)
  /\ hid_uart = (IF is_open THEN OneDevice ELSE [NoDevice EXCEPT !.timeouts = DefaultTimeouts])
  /\ sequence \in SeqsUpTo(DialogConfigs, MaxSteps)
  /\ \E sequence_id \in {None} \cup SequenceIds :
       /\ current_sequence_id = sequence_id
       /\ current_sequence_name =
            IF sequence_id = None THEN None ELSE NameOf(sequence_id)
       /\ current_sequence_description =
            IF sequence_id = None THEN None ELSE DescriptionOf(sequence_id)
  /\ devSeq \in SeqsUpTo({CommandOf(c) : c \in DialogConfigs}, MaxDevSteps)
  /\ devErr \in {NoError, DeviceError}
  /\ run_test_button = is_open
  /\ uiPc = "idle"
  /\ load_id = None
  /\ prog_i = 0
  /\ WorkerIdle
  /\ last = NoCall
  /\ adds = LoadedAdds

Next ==
  \/ connect_device
  \/ disconnect_device
  \/ send_direct_command_from_input
  \/ open_test_setup_dialog
  \/ clear_sequence
  \/ load_sequence
  \/ load_sequence_fetch
  \/ load_sequence_program
  \/ run_test
  \/ run_sequence_begin
  \/ run_sequence_poll
  \/ run_sequence_timeout
  \/ run_sequence_collect
  \/ handle_test_results

\* The application: the handlers of the main window and the worker thread.
Spec == Init /\ [][Next]_vars

NextApi ==
  \/ call_add_step_to_device
  \/ call_clear_sequence_on_device
  \/ call_open
  \/ call_save_sequence_to_supabase
  \/ call_load_sequence_from_supabase

\* The sequence engine called directly from any state.
SpecApi == InitApi /\ [][NextApi]_vars

\* run_sequence called once, in any state of the driver, the sequencer and the
\* instrument.
InitRun ==
  /\ is_open \in BOOLEAN
  /\ device_handle = (IF is_open THEN DeviceHandle ELSE NullHandle)
  /\ hid_uart = (IF is_open THEN OneDevice ELSE [NoDevice EXCEPT !.timeouts = DefaultTimeouts])
  /\ sequence \in SeqsUpTo(DialogConfigs, MaxSteps)
  /\ \E sequence_id \in {None} \cup SequenceIds :
       /\ current_sequence_id = sequence_id
       /\ current_sequence_name =
            IF sequence_id = None THEN None ELSE NameOf(sequence_id)
       /\ current_sequence_description =
            IF sequence_id = None THEN None ELSE DescriptionOf(sequence_id)
  /\ devSeq \in SeqsUpTo({CommandOf(c) : c \in DialogConfigs}, MaxDevSteps)
  /\ devErr \in {NoError, DeviceError}
  /\ run_test_button = FALSE
  /\ uiPc = "idle"
  /\ load_id = None
  /\ prog_i = 0
  /\ wpc = "started"
  /\ num_steps = 0
  /\ results = NoResult
  /\ wsent = <<>>
  /\ last = NoCall
  /\ adds = LoadedAdds

NextRun ==
  \/ run_sequence_begin
  \/ run_sequence_poll
  \/ run_sequence_timeout
  \/ run_sequence_results(OverallOutcomes, StepReplies)

\* run_sequence called directly, with every way its queries can end.
SpecRun == InitRun /\ [][NextRun]_vars

\* The most turns of the polling loop before the ceiling passes.
MaxPolls == 3

\* How a turn of the polling loop is let to end: the turns after which the
\* loop goes on (RUN? answered "1", or not answered), then at most one that
\* ends it (answered "0" or "2"); with none the ceiling passes.
RunPolls ==
  {waiting \o ending :
     waiting \in SeqsUpTo({<<"line", "1", TRUE>>, <<"no_reply", "0", TRUE>>},
                          MaxPolls - 1),
     ending \in {<<>>, <<<<"line", "0", TRUE>>>>, <<<<"line", "2", TRUE>>>>}}

\* How the RSLT? query is let to end, as <<outcome, answer>>.
OverallReplies == {<<"line", "0">>, <<"line", "9">>, <<"no_reply", "0">>}

\* How a STEPRSLT? query is let to end.
LogStepReplies == {<<"line", "4,1.2,0,1000,0.005,0.0012">>, <<"line", "x,y">>}

\* run_sequence(), recorded in last.
call_run_sequence ==
  /\ last = NoCall
  /\ \E cls \in BOOLEAN, run \in BOOLEAN, polls \in RunPolls,
        overall \in OverallReplies,
        replies \in [1..Len(sequence) -> LogStepReplies] :
       LET r == run_sequence(St, cls, run, "line", polls, TRUE, overall, replies)
       IN  /\ Commit(r.st)
           /\ last' = [op |-> "run", wpc |-> r.wpc, sent |-> r.st.sent,
                       polls |-> SubSeq(polls, 1, r.turns),
                       overall |-> IF r.wpc = "done" THEN overall ELSE <<>>,
                       results |-> r.results, before |-> St]
  /\ UNCHANGED <<DriverVars, run_test_button, UiVars, WorkerVars, adds>>

\* The sequencer with any list, programmed onto the instrument when the
\* device is open.
InitRunLog ==
  /\ is_open \in BOOLEAN
  /\ device_handle = (IF is_open THEN DeviceHandle ELSE NullHandle)
  /\ hid_uart = (IF is_open THEN OneDevice ELSE [NoDevice EXCEPT !.timeouts = DefaultTimeouts])
  /\ sequence \in SeqsUpTo(DialogConfigs, MaxSteps)
  /\ current_sequence_id = None
  /\ current_sequence_name = None
  /\ current_sequence_description = None
  /\ devSeq = [i \in 1..Len(sequence) |-> CommandOf(sequence[i])]
  /\ devErr = NoError
  /\ run_test_button = is_open
  /\ uiPc = "idle"
  /\ load_id = None
  /\ prog_i = 0
  /\ WorkerIdle
  /\ last = NoCall
  /\ adds = LoadedAdds

\* run_sequence called once, from its call to its return.
SpecRunLog == InitRunLog /\ [][call_run_sequence]_vars

\* The most flags set in a status code display_results is explored with.
MaxFlags == 2

RECURSIVE SumOf(_)
SumOf(S) == IF S = {} THEN 0 ELSE LET x == CHOOSE x \in S : TRUE
                                  IN  x + SumOf(S \ {x})

RECURSIVE DigitsOf(_)
\* str(n): the decimal digits of n.
DigitsOf(n) ==
  IF n < 10 THEN <<DigitChars[n + 1]>>
  ELSE Append(DigitsOf(n \div 10), DigitChars[(n % 10) + 1])

\* The status codes with at most MaxFlags of the bits of the table set, as
\* the sets of their bits.
StatusCodes ==
  {bits \in SUBSET {STATUS_FLAGS[i].flag_bit : i \in 1..Len(STATUS_FLAGS)} :
     Cardinality(bits) <= MaxFlags}

\* display_results on the reply to RSLT?, recorded in last.
call_display_flags ==
  /\ last = NoCall
  /\ \E bits \in StatusCodes :
       last' = [op |-> "decode", bits |-> bits,
                overall_status_code |-> DigitsOf(SumOf(bits)),
                ret |-> display_flags(DigitsOf(SumOf(bits)))]
  /\ UNCHANGED <<is_open, DriverVars, sequence, current_sequence_id,
                 current_sequence_name, current_sequence_description, devSeq,
                 devErr, run_test_button, UiVars, WorkerVars, adds>>

\* display_results called once on any status code.
SpecDecode == Init /\ [][call_display_flags]_vars

\* parse_current_input called once on any input.
SpecParse == Init /\ [][call_parse_current_input]_vars

NextDriver ==
  \/ driver_open
  \/ driver_close
  \/ driver_send_command
  \/ driver_read_response
  \/ hipot_cmd_read_response
  \/ driver_query_command
  \/ driver_query_again

\* The driver alone, from its construction: open() and close() in any order,
\* with every answer of the transport.
SpecDriver == Init /\ [][NextDriver]_vars

NextLive ==
  \/ run_sequence_begin
  \/ run_sequence_poll
  \/ run_sequence_timeout
  \/ run_sequence_collect

\* run_sequence on its thread: the thread runs until run_sequence returns,
\* and the clock advances, so that a loop that keeps polling finds the
\* ceiling passed at some turn.
SpecLive ==
  /\ InitRun
  /\ [][NextLive]_vars
  /\ WF_vars(run_sequence_begin)
  /\ WF_vars(run_sequence_timeout)
  /\ WF_vars(run_sequence_collect)

(***************************************************************************)
(* Properties                                                              *)
(***************************************************************************)
\* C1: in every reachable state the in-memory sequence list is a prefix, in
\* length and order, of the steps held in the instrument's sequence memory.
SequenceIsPrefixOfDevice ==
  /\ Len(sequence) <= Len(devSeq)
  /\ \A i \in 1..Len(sequence) : devSeq[i] = CommandOf(sequence[i])

\* C2: once the ADD command was sent, add_step_to_device returns failure when
\* the *ERR? query gives a non-zero value or nothing readable (None), and
\* success only when it gives "0".
AddSucceedsOnlyOnZero ==
  (last.op = "add" /\ last.err_status # "<unsent>")
    => (last.ret <=> last.err_status = "0")

\* C3: add_step_to_device leaves the in-memory list and the identity of the
\* persisted sequence as they were, whatever it returns.
AddLeavesListAlone ==
  last.op = "add"
    => /\ sequence = last.before.sequence
       /\ current_sequence_id = last.before.id
       /\ current_sequence_name = last.before.name
       /\ current_sequence_description = last.before.description

\* An add the instrument took, made with a list and an identity in place.
AddTakenListInPlace ==
  /\ last.op = "add"
  /\ last.ret
  /\ devSeq = Append(last.before.devSeq, CommandOf(last.step_config))
  /\ last.before.sequence # <<>>
  /\ last.before.id # None

\* C4: from an empty list, after any series of add attempts through
\* open_test_setup_dialog, the list is the successfully added steps in the
\* order they were added: its length is their number and a failed attempt
\* left it as it was.
ListIsSuccessfulAdds == adds.valid => sequence = adds.steps

\* Two different steps added, with a failed attempt on the way.
TwoAddedOneFailed ==
  /\ adds.valid
  /\ adds.failed
  /\ Len(adds.steps) >= 2
  /\ adds.steps[1] # adds.steps[2]

\* C5: clear_sequence_on_device returns success exactly when NOSEQ was sent
\* and the *ERR? query after it gave "0"; on success the list is empty and the
\* identity unset, on every failure both are as they were.
ClearOnlyWhenConfirmed ==
  last.op = "clear"
    => /\ last.ret <=> /\ \E i \in 1..Len(last.after.sent) : last.after.sent[i] = "NOSEQ"
                       /\ last.err_status = "0"
       /\ last.ret => /\ sequence = <<>>
                      /\ current_sequence_id = None
                      /\ current_sequence_name = None
                      /\ current_sequence_description = None
       /\ ~last.ret => /\ sequence = last.before.sequence
                       /\ current_sequence_id = last.before.id
                       /\ current_sequence_name = last.before.name
                       /\ current_sequence_description = last.before.description

\* A confirmed clear of a loaded, non-empty list.
ClearedLoadedList ==
  /\ last.op = "clear"
  /\ last.ret
  /\ last.before.sequence # <<>>
  /\ last.before.id # None
  /\ last.before.devSeq # <<>>

\* C6: whatever the operation (clear, load, failed load), the in-memory list
\* is emptied only when the instrument has confirmed NOSEQ: no step empties
\* the list and leaves steps in the instrument's sequence memory.
ListEmptiedOnlyWithDevice ==
  [][(sequence # <<>> /\ sequence' = <<>>) => devSeq' = <<>>]_vars

\* C7: for an ACW or DCW step whose minimum or maximum current limit
\* parse_current_input rejects (None), add_step_to_device returns failure and
\* sends no command at all.
BadLimitSendsNothing ==
  (/\ last.op = "add"
   /\ Get(last.step_config, "type", None) \in {"ACW", "DCW"}
   /\ \/ parse_current_input(Get(last.step_config, "min_limit", "")) = None
      \/ parse_current_input(Get(last.step_config, "max_limit", "5mA")) = None)
    => (~last.ret /\ last.after.sent = <<>>)

\* A DCW step with a maximum limit that is no current, on an open device.
BadLimitOnOpenDevice ==
  /\ last.op = "add"
  /\ last.before.is_open
  /\ last.step_config = CfgDCWBadMax
  /\ parse_current_input(last.step_config.max_limit) = None

\* C8: add_step_to_device sends nothing and returns failure when the device
\* is not open or the type of the step is missing or not one of ACW, DCW, IR,
\* CONT, GND.
ClosedOrBadTypeSendsNothing ==
  (/\ last.op = "add"
   /\ \/ ~last.before.is_open
      \/ "type" \notin DOMAIN last.step_config
      \/ last.step_config.type \notin {"ACW", "DCW", "IR", "CONT", "GND"})
    => (~last.ret /\ last.after.sent = <<>>)

\* A step without a type on an open device.
MissingTypeOnOpenDevice ==
  /\ last.op = "add"
  /\ last.before.is_open
  /\ "type" \notin DOMAIN last.step_config

\* C9: the ADD command is "ADD,<type>" followed by the parameters in the
\* order of the type (ACW/DCW: voltage, ramp, dwell, min, max, GND only with
\* the ground check; IR: voltage, ramp, dwell, min, max; CONT: current, min,
\* max, dwell; GND: current, max, dwell, frequency), a blank parameter being
\* an empty field: the ACW step (1000, 1.0, 2.0, "", "5mA", ground off) is
\* sent as ADD,ACW,1000,1.0,2.0,,0.005.
AddCommandFormat ==
  LET expected ==
        (CfgACW :> "ADD,ACW,1000,1.0,2.0,,0.005") @@
        (CfgDCWGround :> "ADD,DCW,1500,0.5,3.0,5e-05,0.01,GND") @@
        (CfgIR :> "ADD,IR,500,1.0,2.0,,") @@
        (CfgCONT :> "ADD,CONT,0.2,,0.5,1.5") @@
        (CfgGND :> "ADD,GND,25,0.05,4.0,50")
  IN  (/\ last.op = "add"
       /\ last.before.is_open
       /\ last.step_config \in DOMAIN expected)
        => /\ last.after.sent # <<>>
           /\ last.after.sent[1] = expected[last.step_config]

\* The ACW step of scenario A sent to an open device.
ScenarioASent ==
  /\ last.op = "add"
  /\ last.step_config = CfgACW
  /\ last.after.sent # <<>>
  /\ last.after.sent[1] = "ADD,ACW,1000,1.0,2.0,,0.005"

RunQueries ==
  {"RUN?", "RSLT?"} \cup {StepResultQuery(i) : i \in 1..MaxSteps}

\* C11: when the RUN command cannot be sent, run_sequence ends aborted
\* without entering the polling loop: whatever happens to *CLS and to the
\* *ERR? query made for the log, no RUN?, RSLT? or STEPRSLT? is sent, and an
\* aborted run holds the no-result value.
RunNotSentEndsAborted ==
  /\ (wpc = "started" /\ ~RunRefused(St)) =>
       \A cls \in BOOLEAN, outcome \in QueryOutcomes :
         /\ run_sequence_start(St, cls, FALSE, outcome).wpc = "aborted"
         /\ \A k \in 1..Len(run_sequence_start(St, cls, FALSE, outcome).st.sent) :
              run_sequence_start(St, cls, FALSE, outcome).st.sent[k] \notin RunQueries
  /\ wpc = "aborted" => (results = NoResult /\ num_steps = 0)

\* run_sequence returned after a RUN that could not be written.
RunNotSentReturned ==
  /\ wpc = "aborted"
  /\ wsent = <<"*CLS", "RUN", "*ERR?">>
  /\ results = NoResult

\* C12: in the polling loop, a RUN? reply that is read and is neither "0" nor
\* "1" makes run_sequence send ABORT and end aborted, never go on to collect
\* results.
UnexpectedStatusAborts ==
  (wpc = "polling" /\ is_open) =>
    \A answer \in (RunAnswers \cup {""}) \ {"0", "1"}, abort \in BOOLEAN :
      /\ run_sequence_turn(St, "line", answer, abort).wpc = "aborted"
      /\ run_sequence_turn(St, "line", answer, abort).st.sent = <<"RUN?", "ABORT">>

\* run_sequence returned after an unexpected reading of RUN?.
UnexpectedStatusReturned ==
  /\ wpc = "aborted"
  /\ wsent = <<"RUN?", "ABORT">>
  /\ results = NoResult

\* C13: in the polling loop, a RUN? query that returns None (nothing read, or
\* the write failed) makes run_sequence send ABORT and end aborted at that
\* turn.
UnreadableStatusAborts ==
  (wpc = "polling" /\ is_open) =>
    \A outcome \in {"no_reply", "write_failed"}, abort \in BOOLEAN :
      /\ run_sequence_turn(St, outcome, "", abort).wpc = "aborted"
      /\ run_sequence_turn(St, outcome, "", abort).st.sent = <<"RUN?", "ABORT">>

\* C14: when the loop condition finds the ceiling passed, polling not having
\* read "0", run_sequence sends ABORT and ends aborted with the no-result
\* value.
TimeoutAborts ==
  [][run_sequence_timeout =>
       /\ wpc' = "aborted"
       /\ wsent' = <<"ABORT">>
       /\ results' = NoResult]_vars

\* run_sequence returned after the ceiling passed.
TimeoutReturned ==
  /\ wpc = "aborted"
  /\ wsent = <<"ABORT">>
  /\ results = NoResult

\* C15: every run that passes the guards of run_sequence ends, Done with a
\* result structure or Aborted with none, whatever the instrument replies to
\* RUN?; the loop does not go on for ever.
RunTerminates ==
  (wpc = "started" /\ ~RunRefused(St))
    ~> \/ wpc = "done" /\ ~results.is_none
       \/ wpc = "aborted" /\ results = NoResult

\* run_sequence returned the results of a run the instrument reported over.
RunCompleted ==
  /\ wpc = "done"
  /\ ~results.is_none
  /\ results.overall = "0"
  /\ wsent[1] = "RSLT?"

\* C16: a run that reached Done holds one step result per step of the
\* in-memory sequence, numbered 1..N in ascending order, N being the length
\* of the in-memory sequence, also when the UI thread added, cleared or
\* loaded steps while the run was in progress.
ResultsMatchSequence ==
  (wpc = "done" /\ ~results.is_none) =>
    /\ Len(results.steps) = Len(sequence)
    /\ \A i \in 1..Len(results.steps) : results.steps[i].step_number = i

\* C17: once the polling loop has read "0", run_sequence ends Done with a
\* result structure whatever the replies to RSLT? and STEPRSLT? are: a step
\* whose reply is not read or not decoded keeps its raw reply and has no
\* parsed field, and the run is not turned into a failure.
CollectingEndsDone ==
  [][(wpc = "collecting" /\ wpc' # "collecting") =>
       /\ wpc' = "done"
       /\ ~results'.is_none
       /\ Len(results'.steps) = num_steps
       /\ \A i \in 1..num_steps :
            /\ results'.steps[i].step_number = i
            /\ results'.steps[i].raw \in {None} \cup {reply[2] : reply \in StepReplies}
            /\ results'.steps[i].parsed =
                 IF results'.steps[i].raw \in {None, ""} THEN NoDict
                 ELSE parse_step_result(results'.steps[i].raw)]_vars

\* A run ended Done with RSLT? and step 1 not read and step 2 not decoded.
UndecodedStepsReturned ==
  /\ wpc = "done"
  /\ ~results.is_none
  /\ results.overall = None
  /\ Len(results.steps) = 2
  /\ results.steps[1].raw = None
  /\ results.steps[1].parsed = NoDict
  /\ results.steps[2].raw = "x,y"
  /\ results.steps[2].parsed = EmptyDict

\* C18: a step-result record of at least 6 comma-separated fields is decoded
\* into term_state, elapsed_time, status_code, level, limit and measurement
\* from positions 1..6, with the secondary measurement from position 7 when
\* it is there; a record of fewer than 6 fields is decoded into None.
StepResultDecoding ==
  (wpc = "done" /\ ~results.is_none) =>
    \A i \in 1..Len(results.steps) :
      results.steps[i].raw \notin {None, ""} =>
        IF Len(FieldsOf[results.steps[i].raw]) < 6
        THEN results.steps[i].parsed = NoDict
        ELSE /\ results.steps[i].parsed.term_state = FieldsOf[results.steps[i].raw][1]
             /\ results.steps[i].parsed.elapsed_time = FieldsOf[results.steps[i].raw][2]
             /\ results.steps[i].parsed.status_code = FieldsOf[results.steps[i].raw][3]
             /\ results.steps[i].parsed.level = FieldsOf[results.steps[i].raw][4]
             /\ results.steps[i].parsed.limit = FieldsOf[results.steps[i].raw][5]
             /\ results.steps[i].parsed.measurement = FieldsOf[results.steps[i].raw][6]
             /\ Len(FieldsOf[results.steps[i].raw]) >= 7 =>
                  results.steps[i].parsed.optional1 = FieldsOf[results.steps[i].raw][7]

\* A handler of the UI thread that sends commands to the device, or closes it.
UiDeviceHandler ==
  \/ send_direct_command_from_input
  \/ open_test_setup_dialog
  \/ clear_sequence
  \/ load_sequence
  \/ load_sequence_program
  \/ disconnect_device

\* C19: while a run is in progress on the worker thread, RUN sent and
\* run_sequence polling or collecting the results, no handler of the UI thread
\* exchanges commands with the device: no direct command, add, clear, load or
\* disconnect.
NoUiCommandDuringRun ==
  [][UiDeviceHandler => wpc \notin {"polling", "collecting"}]_vars

CallsTo(function) ==
  {k \in 1..Len(last.after.calls) : last.after.calls[k][1] = function}

\* The latest driver call made the library call function and was answered ok.
Answered(function, ok) ==
  \E k \in 1..Len(last.after.calls) : last.after.calls[k] = <<function, ok>>

\* C21: when HidUart_SetUartConfig reports a failure during open(), and
\* HidUart_Open succeeds and HidUart_FlushBuffers reports no failure, open()
\* goes on to the flush, returns True, and the driver is open and holds the
\* handle.
UartConfigFailureNotFatal ==
  (/\ last.op = "open"
   /\ Answered("HidUart_Open", TRUE)
   /\ Answered("HidUart_SetUartConfig", FALSE)
   /\ ~Answered("HidUart_FlushBuffers", FALSE))
    => /\ last.ret
       /\ Answered("HidUart_FlushBuffers", TRUE)
       /\ is_open
       /\ device_handle = DeviceHandle
       /\ CallsTo("HidUart_Close") = {}

\* open() succeeded although HidUart_SetUartConfig reported a failure.
OpenedWithoutUartConfig ==
  /\ last.op = "open"
  /\ last.ret
  /\ is_open
  /\ last.after.calls[2] = <<"HidUart_SetUartConfig", FALSE>>

\* C22: in every state of the driver, _is_open is true exactly when the
\* driver holds a handle, and the handles HidUart_Open gave and
\* HidUart_Close was not called on are that handle and no other: one while
\* open, none while closed, after a failed open() too.
OneHandleWhileOpen ==
  /\ is_open <=> device_handle # NullHandle
  /\ hid_uart.live = (IF is_open THEN 1 ELSE 0)
  /\ last.op = "open" => Cardinality(CallsTo("HidUart_Open")) <= 1

\* open() succeeded on a driver whose earlier handle had been given up.
HandleObtainedAgain ==
  /\ last.op = "open"
  /\ last.ret
  /\ ~last.before.is_open
  /\ last.before.timeouts = DefaultTimeouts
  /\ hid_uart.live = 1

\* C23: open() on an open driver returns True, calls nothing of the library
\* and leaves the handle and the rest of the driver as they were.
OpenWhenOpenDoesNothing ==
  (last.op = "open" /\ last.before.is_open)
    => /\ last.ret
       /\ last.after.calls = <<>>
       /\ last.after = last.before
       /\ device_handle = last.before.handle
       /\ is_open

\* open() was called on an open driver.
OpenedTwice ==
  /\ last.op = "open"
  /\ last.before.is_open
  /\ last.before.handle = DeviceHandle
  /\ last.ret

\* C24: close() leaves the driver closed, without a handle, whatever
\* HidUart_Close reports; on a driver that is not open it returns True and
\* calls nothing of the library.
CloseAlwaysCloses ==
  last.op = "close"
    => /\ ~is_open
       /\ device_handle = NullHandle
       /\ ~last.before.is_open => (last.ret /\ last.after.calls = <<>>)
       /\ last.before.is_open
            => (last.after.calls = <<<<"HidUart_Close", last.ret>>>>)

\* close() was called on an open driver and HidUart_Close reported a failure.
CloseRefused ==
  /\ last.op = "close"
  /\ last.before.is_open
  /\ ~last.ret
  /\ last.after.calls = <<<<"HidUart_Close", FALSE>>>>

\* C25: send_command returns False exactly when the driver is not open, and
\* then nothing is handed to HidUart_Write, or when HidUart_Write reports a
\* failure; a write that reports success with fewer bytes than the buffer
\* holds still returns True.
SendFailsWhenClosedOrRefused ==
  last.op = "send"
    => /\ ~last.ret <=> (~last.before.is_open \/ ~last.status)
       /\ ~last.before.is_open
            => (last.handed = <<>> /\ last.after.calls = <<>>)
       /\ last.before.is_open
            => (/\ Len(last.handed) = 1
                /\ last.after.calls = <<<<"HidUart_Write", last.status>>>>)

\* send_command returned True on a write one byte short.
ShortWriteAccepted ==
  /\ last.op = "send"
  /\ last.before.is_open
  /\ last.status
  /\ last.bytes_written < Len(last.handed[1])
  /\ last.ret

\* C26: the buffer handed to HidUart_Write is the command followed by one
\* carriage return when the command does not end with one, and the command
\* as it is when it does.
WireEndsWithOneCR ==
  (last.op = "send" /\ last.handed # <<>>)
    => IF last.command # <<>> /\ last.command[Len(last.command)] = CR
       THEN last.handed[1] = last.command
       ELSE /\ Len(last.handed[1]) = Len(last.command) + 1
            /\ SubSeq(last.handed[1], 1, Len(last.command)) = last.command
            /\ last.handed[1][Len(last.handed[1])] = CR

\* A command that ends with a carriage return was handed over as it is.
TerminatedCommandSent ==
  /\ last.op = "send"
  /\ last.command = <<"R", CR>>
  /\ last.handed = <<last.command>>

RECURSIVE Elapsed(_, _)
\* The ticks since the call started once the first k answers were read.
Elapsed(answers, k) ==
  IF k = 0 THEN 0 ELSE Elapsed(answers, k - 1) + answers[k].took

IsLF(e) == e.status = "success" /\ e.bytes = <<LF>>

\* The first k answers hold no line feed and no read error.
Unbroken(answers, k) ==
  \A j \in 1..k : ~IsLF(answers[j]) /\ answers[j].status # "error"

\* Where the latest read has its first line feed, when that is read before
\* the deadline and before any read error.
LineEnds ==
  {k \in 1..Len(last.answers) :
     /\ IsLF(last.answers[k])
     /\ Unbroken(last.answers, k - 1)
     /\ Elapsed(last.answers, k) < TimeoutTicks}

\* Where the latest read has its first read error, when that is read before
\* the deadline and before any line feed.
HardErrors ==
  {k \in 1..Len(last.answers) :
     /\ last.answers[k].status = "error"
     /\ Unbroken(last.answers, k - 1)
     /\ Elapsed(last.answers, k - 1) < TimeoutTicks}

\* The bytes among the first k answers without the carriage returns.
Kept(answers, k) ==
  LET bytes == SelectSeq(SubSeq(answers, 1, k),
                         LAMBDA e : /\ e.status = "success"
                                    /\ e.bytes # <<>>
                                    /\ e.bytes # <<CR>>)
  IN  [i \in 1..Len(bytes) |-> bytes[i].bytes[1]]

\* The latest call is a V7xDevice.read_response on an open driver.
ReadWhenOpen ==
  last.op = "read" /\ last.module = "v7x_device" /\ last.before.is_open

\* C27: when the line feed is read before the deadline, read_response returns
\* the bytes read before it without the carriage returns, stripped, and has
\* read nothing behind the line feed.
LineReturned ==
  ReadWhenOpen
    => \A k \in LineEnds :
         /\ last.ret = <<Strip(Kept(last.answers, k - 1))>>
         /\ last.consumed = k

\* C28: a read status other than success and timed out ends read_response
\* with None, whatever was read before; after a read that timed out before
\* the deadline another read follows; at the deadline the bytes read so far
\* are returned stripped, and None when there is none.
ReadOutcomeClassified ==
  ReadWhenOpen
    => /\ \A k \in HardErrors : last.consumed = k /\ last.ret = <<>>
       /\ \A k \in 1..last.consumed :
            (/\ last.answers[k].status = "timed_out"
             /\ Elapsed(last.answers, k) < TimeoutTicks)
              => last.reads > k
       /\ (LineEnds = {} /\ HardErrors = {})
            => /\ last.last_read_at < TimeoutTicks
               /\ last.ret = IF Kept(last.answers, last.consumed) = <<>>
                             THEN <<>>
                             ELSE <<Strip(Kept(last.answers, last.consumed))>>

\* read_response met the deadline with bytes read and returned them, after
\* a read that timed out.
PartialLineReturned ==
  /\ ReadWhenOpen
  /\ LineEnds = {} /\ HardErrors = {}
  /\ Len(last.answers) >= 2
  /\ last.answers[1] = ReadAnswer("success", <<"R">>, 0)
  /\ last.answers[2].status = "timed_out"
  /\ last.consumed >= 2
  /\ last.ret = <<<<"R">>>>

\* read_response on an open device, with both HidUart_SetTimeouts accepted.
ReadWithTimeoutsAccepted ==
  /\ last.op = "read"
  /\ last.before.is_open
  /\ last.env[1]
  /\ last.env[2]

\* C29: after a read_response on an open device, however it returned, the
\* timeouts of the transport are the default ones (the transport accepting
\* the timeouts it is given).
TimeoutsRestoredAfterRead ==
  ReadWithTimeoutsAccepted => hid_uart.timeouts = DefaultTimeouts

\* C30: read_response starts no HidUart_Read once timeout_ms has passed since
\* the call started, whatever bytes were read meanwhile.
NoReadPastDeadline ==
  (last.op = "read" /\ last.before.is_open /\ last.reads > 0)
    => last.last_read_at < TimeoutTicks

\* C31: query_command returns None and reads nothing (no HidUart_Read, no
\* polling timeout set) when the driver is not open or the send fails;
\* otherwise it returns what read_response returns on the answers that
\* follow the send.
QueryIsSendThenRead ==
  last.op = "query"
    => /\ (~last.before.is_open \/ ~last.status)
            => /\ last.ret = <<>>
               /\ last.reads = 0
               /\ CallsTo("HidUart_SetTimeouts") = {}
       /\ ~last.before.is_open => last.handed = <<>>
       /\ (last.before.is_open /\ last.status)
            => /\ last.handed = <<WireBytes(last.command)>>
               /\ last.after.calls[1] = <<"HidUart_Write", TRUE>>
               /\ last.ret = read_response(last.before, last.answers, last.env).ret
               /\ last.reads
                    = read_response(last.before, last.answers, last.env).loop.reads

\* A query was sent and the line read behind it was returned.
QueryAnsweredWithLine ==
  /\ last.op = "query"
  /\ last.before.is_open
  /\ last.status
  /\ last.answers = <<ReadAnswer("success", <<"R">>, 0),
                      ReadAnswer("success", <<CR>>, 0),
                      ReadAnswer("success", <<LF>>, 0)>>
  /\ last.ret = <<<<"R">>>>

\* The grammar of a current: an optional sign, a mantissa with digits after
\* its point if it has one, an optional exponent, optional blanks, and a
\* unit made of an optional m or u and an optional a, in either case.
AllIn(cs, S) == \A i \in 1..Len(cs) : cs[i] \in S

IsDigits(cs) == cs # <<>> /\ AllIn(cs, Digits)

IsMantissa(cs) ==
  \/ IsDigits(cs)
  \/ \E i \in 1..Len(cs) :
       /\ cs[i] = "."
       /\ AllIn(SubSeq(cs, 1, i - 1), Digits)
       /\ IsDigits(SubSeq(cs, i + 1, Len(cs)))

IsExponent(cs) ==
  \/ cs = <<>>
  \/ /\ cs[1] \in {"e", "E"}
     /\ \/ IsDigits(Tail(cs))
        \/ Len(cs) >= 2 /\ cs[2] \in {"-", "+"} /\ IsDigits(SubSeq(cs, 3, Len(cs)))

IsUnsigned(cs) ==
  \E i \in 1..Len(cs) :
    IsMantissa(SubSeq(cs, 1, i)) /\ IsExponent(SubSeq(cs, i + 1, Len(cs)))

IsNumber(cs) == IsUnsigned(cs) \/ (cs # <<>> /\ cs[1] = "-" /\ IsUnsigned(Tail(cs)))

CurrentUnits ==
  {prefix \o ampere : prefix \in {<<>>, <<"m">>, <<"M">>, <<"u">>, <<"U">>},
                      ampere \in {<<>>, <<"a">>, <<"A">>}}

InGrammar(cs) ==
  \E i \in 1..Len(cs) :
    \E j \in i..Len(cs) :
      /\ IsNumber(SubSeq(cs, 1, i))
      /\ AllIn(SubSeq(cs, i + 1, j), {" "})
      /\ SubSeq(cs, j + 1, Len(cs)) \in CurrentUnits

\* The latest call was parse_current_input on an input of the grammar,
\* blanks around it aside.
ParsedCurrent == last.op = "parse" /\ InGrammar(Strip(last.input_str))

\* A numeric string as the 'g' format writes it.
IsNumeric(str) == str \notin {None, "", "inf", "-inf"}

\* C32: on every input of the grammar, a prefix without the A included,
\* parse_current_input returns a numeric string and not None; m divides by
\* 1000 and u by 1000000: "10mA" gives "0.01", "50uA" gives "5e-05", "0.01A"
\* gives "0.01", "15" gives "15".
GrammarInputsParsed ==
  /\ ParsedCurrent => IsNumeric(last.ret)
  /\ parse_current_input("10mA") = "0.01"
  /\ parse_current_input("50uA") = "5e-05"
  /\ parse_current_input("0.01A") = "0.01"
  /\ parse_current_input("15") = "15"

\* C33: on every input that is not blank and not of the grammar,
\* parse_current_input returns None.
OtherInputsRefused ==
  (/\ last.op = "parse"
   /\ Strip(last.input_str) # <<>>
   /\ ~InGrammar(Strip(last.input_str)))
    => last.ret = None

\* parse_current_input refused a number with an unknown unit.
UnknownUnitRefused ==
  /\ last.op = "parse"
  /\ last.input_str = <<"1", "0", "x", "A">>
  /\ last.ret = None

\* C34: on every input that is empty or made of blanks only,
\* parse_current_input returns "".
BlankInputIsNoLimit ==
  (last.op = "parse" /\ Strip(last.input_str) = <<>>) => last.ret = ""

\* C35: the flags decoded from a status code are the entries of the table
\* whose bit is set in it, each once, in ascending order of the bits: none
\* for code 0, "V7X Internal Fault" then "DUT Breakdown Detected" for code
\* 9; the keys of the table are distinct powers of two.
FlagsDecoded ==
  /\ last.op = "decode"
       => /\ {last.ret[i].flag_bit : i \in 1..Len(last.ret)} = last.bits
          /\ \A i \in 1..Len(last.ret) :
               /\ \E k \in 1..Len(STATUS_FLAGS) : STATUS_FLAGS[k] = last.ret[i]
               /\ \A j \in 1..(i - 1) : last.ret[j].flag_bit < last.ret[i].flag_bit
          /\ last.bits = {} => last.ret = <<>>
          /\ last.bits = {1, 8}
               => last.ret = <<[flag_bit |-> 1, description |-> "V7X Internal Fault"],
                               [flag_bit |-> 8,
                                description |-> "DUT Breakdown Detected"]>>
  /\ \A k \in 1..Len(STATUS_FLAGS) :
       /\ \E n \in 0..16 : STATUS_FLAGS[k].flag_bit = 2 ^ n
       /\ \A j \in 1..(k - 1) : STATUS_FLAGS[j].flag_bit < STATUS_FLAGS[k].flag_bit

\* Status code 9 was decoded into its two flags.
CodeNineDecoded ==
  /\ last.op = "decode"
  /\ last.overall_status_code = <<"9">>
  /\ Len(last.ret) = 2
  /\ last.ret[1].description = "V7X Internal Fault"
  /\ last.ret[2].description = "DUT Breakdown Detected"

IdentityUnset ==
  /\ current_sequence_id = None
  /\ current_sequence_name = None
  /\ current_sequence_description = None

\* C36: the identity of the persisted sequence (id, name, description) is
\* unset after a clear of the sequence that succeeded, after every
\* save_sequence_to_supabase that failed and after every
\* load_sequence_from_supabase that failed, the failures before the first
\* datastore call included.
IdentityUnsetAfterFailure ==
  /\ (last.op = "clear" /\ last.ret) => IdentityUnset
  /\ (last.op = "save" /\ ~last.ret) => IdentityUnset
  /\ (last.op = "load" /\ last.ret = None) => IdentityUnset

\* C37: when run_sequence ends aborted on a reading of RUN? that is neither
\* "0" nor "1", the error register was queried (*ERR?) after that RUN? and
\* before ABORT was sent.
ErrQueriedBeforeAbort ==
  (wpc = "aborted" /\ Len(wsent) >= 1 /\ wsent[1] = "RUN?")
    => \E i \in 1..Len(wsent), j \in 1..Len(wsent) :
         /\ i < j
         /\ wsent[i] = "*ERR?"
         /\ wsent[j] = "ABORT"

\* C38: a run_sequence that completes has sent, in this order, *CLS once,
\* RUN once, RUN? once or more with only the last of them answered "0",
\* RSLT? once, then STEPRSLT?,1 to STEPRSLT?,N for the N steps of the list,
\* and nothing else (no ABORT); its overall result is a pass exactly when
\* RSLT? was answered "0".
CompletedRunCommands ==
  (last.op = "run" /\ last.wpc = "done")
    => /\ Len(last.polls) >= 1
       /\ last.sent = <<"*CLS", "RUN">> \o [k \in 1..Len(last.polls) |-> "RUN?"]
                         \o <<"RSLT?">>
                         \o [i \in 1..Len(last.before.sequence) |->
                               StepResultQuery(i)]
       /\ \A k \in 1..Len(last.polls) :
            (last.polls[k][1] = "line" /\ last.polls[k][2] = "0")
              <=> k = Len(last.polls)
       /\ overall_pass(last.results) <=> last.overall = <<"line", "0">>

\* A run of two steps completed at the third RUN? and passed.
TwoStepRunCompleted ==
  /\ last.op = "run"
  /\ last.wpc = "done"
  /\ last.sent = <<"*CLS", "RUN", "RUN?", "RUN?", "RUN?", "RSLT?", "STEPRSLT?,1",
                   "STEPRSLT?,2">>
  /\ overall_pass(last.results)
  /\ last.results.steps[2].raw = "x,y"

\* C39: what query_command returns is the reply of the instrument to the
\* command this call sent: a query made behind another one returns its own
\* reply line (or None), whatever the earlier query left unread, bytes behind
\* its line feed or a reply that came after its deadline.
QueryReturnsOwnReply ==
  last.op = "requery" => last.ret \in {<<>>, <<<<"0">>>>}

\* C40: from the start of a run until handle_test_results has handled its
\* finished signal, run_test cannot start another one: its button is
\* disabled or the device is not open, whatever the operator did meanwhile.
OneRunAtATime == wpc # "idle" => ~RunTestEnabled

=============================================================================
